---- MODULE Spec2Model ----
(***************************************************************************)
(* Harmony Travels: the booking form wiring and the TicketRenderer of      *)
(* src/ticket.js, and the header, the modals and the newsletter prompt of  *)
(* the site script (src/unnamed/part_000), as a state machine.             *)
(*                                                                         *)
(* Text is a sequence of chunks: a chunk is a one-character string where   *)
(* the code looks at characters (trim, slice, digits) and a literal        *)
(* fragment of a template string elsewhere.  A JavaScript object is a      *)
(* record holding exactly the keys the object holds; null is Null.         *)
(***************************************************************************)
EXTENDS Integers, Sequences, FiniteSets, TLC

VARIABLES
    text,          \* values of the text inputs of #bookingForm
    transport,     \* transportEl.value
    provider,      \* providerEl.value
    travelClass,   \* classEl.value
    providerOpts,  \* options of #provider
    classOpts,     \* options of #travelClass
    priceDisplay,  \* #priceDisplay.textContent
    container,     \* TicketRenderer: let container
    currentData,   \* TicketRenderer: let currentData
    qrInstance,    \* TicketRenderer: let qrInstance
    ticketHtml,    \* #ticketContainer.innerHTML
    otherHtml,     \* innerHTML of a second container, later in the document
    wired,         \* onclick handlers of the four action buttons are set
    store,         \* sessionStorage: the booking_<id> entries
    now,           \* the clock reading of the latest new Date()
    libs,          \* which third-party globals the page has loaded
    pending,       \* exports suspended at await captureToCanvas(elem)
    toast,         \* #toast: its 'show' class and the timers set to remove it
    out,           \* what the latest handler run showed the user
    dom,           \* which of the elements the site script looks up exist
    pageY,         \* window.pageYOffset (= window.scrollY)
    lastScrollY,   \* header closure: let lastScrollY
    ticking,       \* header closure: let ticking
    frames,        \* requested animation frames, each with the y it captured
    hideTimer,     \* the pending auto-hide timeout: ticks until it fires
    header,        \* #site-header: style.top and the classes pinned, scrolled
    backShow,      \* #backToTop has the class show
    newsletterShown, \* let newsletterShown
    sessionNews,   \* sessionStorage: the entry ht_news_shown
    mapModal,      \* #mapModal: aria-hidden
    mapFrame,      \* #mapFrame: innerHTML
    footerMapModal,  \* #footerMapModal: aria-hidden
    footerMapFrame,  \* #footerMapFrame: innerHTML
    newsletterModal, \* #newsletterModal: aria-hidden
    moreModals,    \* the 'Learn more' modals appended to body: aria-hidden
    seen           \* what an onlooker noted: the latest scroll movement,
                   \* whether the page was ever scrolled down, how often the
                   \* newsletter modal opened, what the latest Escape closed

ticketVars == <<text, transport, provider, travelClass, providerOpts, classOpts,
                priceDisplay, container, currentData, qrInstance, ticketHtml, otherHtml,
                wired, store, now, libs, pending, toast, out>>

headerVars == <<lastScrollY, ticking, frames, hideTimer, header>>
newsVars == <<newsletterShown, sessionNews>>
modalVars == <<mapModal, mapFrame, footerMapModal, footerMapFrame, newsletterModal,
               moreModals>>
siteVars == <<dom, pageY, headerVars, backShow, newsVars, modalVars, seen>>

vars == <<ticketVars, siteVars>>

formVars == <<text, transport, provider, travelClass, providerOpts, classOpts>>
rendererVars == <<container, currentData, qrInstance>>

(***************************************************************************)
(* Bounds of the exploration.                                              *)
(***************************************************************************)
MaxClockReads == 2 \* submissions that get to read the clock
MaxPending == 1    \* exports in flight at once

(***************************************************************************)
(* Text helpers.                                                           *)
(***************************************************************************)
Null == [null |-> TRUE]

IsWhitespace(c) == c \in {" ", "\t", "\n"}

RECURSIVE TrimStart(_)
TrimStart(s) ==
    IF s # <<>> /\ IsWhitespace(Head(s)) THEN TrimStart(Tail(s)) ELSE s

RECURSIVE TrimEnd(_)
TrimEnd(s) ==
    IF s # <<>> /\ IsWhitespace(s[Len(s)])
    THEN TrimEnd(SubSeq(s, 1, Len(s) - 1))
    ELSE s

\* String.prototype.trim
Trim(s) == TrimEnd(TrimStart(s))

DigitChar(d) == <<"0", "1", "2", "3", "4", "5", "6", "7", "8", "9">>[d + 1]

\* Number.prototype.toString of a non-negative integer
RECURSIVE Digits(_)
Digits(n) ==
    IF n < 10 THEN <<DigitChar(n)>> ELSE Digits(n \div 10) \o <<DigitChar(n % 10)>>

\* String.prototype.padStart(w, '0')
RECURSIVE PadStart(_, _)
PadStart(s, w) == IF Len(s) >= w THEN s ELSE PadStart(<<"0">> \o s, w)

\* String.prototype.slice(-k)
SliceLast(s, k) == IF Len(s) <= k THEN s ELSE SubSeq(s, Len(s) - k + 1, Len(s))

\* s.replace(/\s+/g, '_'): every maximal run of whitespace becomes one '_'
RECURSIVE ReplaceWhitespaceRuns(_)
ReplaceWhitespaceRuns(s) ==
    IF s = <<>> THEN <<>>
    ELSE IF IsWhitespace(Head(s))
         THEN <<"_">> \o ReplaceWhitespaceRuns(TrimStart(s))
         ELSE <<Head(s)>> \o ReplaceWhitespaceRuns(Tail(s))

\* encodeURIComponent on the characters the model uses
EncodeChar(c) == IF c = " " THEN "%20" ELSE c
encodeURIComponent(s) == [i \in 1..Len(s) |-> EncodeChar(s[i])]

(***************************************************************************)
(* Numbers.                                                                *)
(***************************************************************************)
\* a rounding that always goes up to the next integer
MathRoundsPast(num, den) == (num \div den) + 1

\* Math.round of the non-negative rational num / den: floor(x + 0.5)
MathRound(num, den) == (2 * num + den) \div (2 * den)

\* Intl.NumberFormat('en-KE', {style:'currency', currency:'KES',
\* maximumFractionDigits: 0}).format(n), n a non-negative integer:
\* the currency sign, then the digits grouped by three.
RECURSIVE GroupDigits(_)
GroupDigits(n) ==
    IF n < 1000 THEN Digits(n)
    ELSE GroupDigits(n \div 1000) \o <<",">> \o PadStart(Digits(n % 1000), 3)

CurrencySign == <<"Ksh", " ">>
IntlKES(n) == CurrencySign \o GroupDigits(n)

(***************************************************************************)
(* The rate table and the pricing resolver.                                *)
(***************************************************************************)
PRICE_MATRIX ==
    [Bus    |-> [providers |-> <<"Easy Coach", "Guardian">>,
                 classes   |-> <<[name |-> "Regular", price |-> 1500],
                                 [name |-> "Premium", price |-> 2500]>>],
     Flight |-> [providers |-> <<"Qatar Airways", "Kenya Airways">>,
                 classes   |-> <<[name |-> "Economy", price |-> 25000],
                                 [name |-> "Business", price |-> 45000],
                                 [name |-> "First Class", price |-> 70000]>>],
     Train  |-> [providers |-> <<"SGR", "Electric Train">>,
                 classes   |-> <<[name |-> "Economy", price |-> 1000],
                                 [name |-> "Business", price |-> 2000],
                                 [name |-> "First Class", price |-> 3500]>>]]

Range(s) == {s[i] : i \in 1..Len(s)}

\* Object.keys(spec.classes), in insertion order
ClassNames(t) == [i \in 1..Len(PRICE_MATRIX[t].classes) |-> PRICE_MATRIX[t].classes[i].name]

\* PRICE_MATRIX and spec.classes are plain objects: obj[key] also finds the
\* properties inherited from Object.prototype, which are functions.  The
\* names explored; FunctionValue stands for such a function where a number
\* is expected
Inherited == {"constructor", "toString"}
FunctionValue == -2

\* spec.classes[cls] || 0
ClassPrice(t, cls) ==
    IF cls \in Range(ClassNames(t))
    THEN (CHOOSE c \in Range(PRICE_MATRIX[t].classes) : c.name = cls).price
    ELSE IF cls \in Inherited THEN FunctionValue
    ELSE 0

\* PRICE_MATRIX[transport] is a function without .classes: spec.classes[cls]
\* reads a property of undefined
getPriceThrows(t, cls) == t # "" /\ cls # "" /\ t \in Inherited

\* getPrice, on the values of #transport and #travelClass
getPrice(t, cls) ==
    IF t = "" \/ cls = "" THEN 0
    ELSE IF t \notin DOMAIN PRICE_MATRIX THEN 0
    ELSE ClassPrice(t, cls)

\* the text updatePrice writes into #priceDisplay
PriceText(price) == IF price # 0 THEN IntlKES(price) ELSE <<"KES 0">>

\* the value a <select> takes when its options are replaced: the first one
FirstOption(opts) == IF opts = <<>> THEN "" ELSE opts[1]

(***************************************************************************)
(* Dates.  A date input is a string; the ones the Date constructor parses  *)
(* are listed with their epoch minute, their ISO form and their local      *)
(* rendering.  Any other string is an Invalid Date.                        *)
(***************************************************************************)
DateTable ==
    {[input |-> "2026-11-05T10:00", second |-> 36000,
      iso |-> "2026-11-05T07:00:00.000Z", shown |-> "Thu, Nov 5, 10:00 AM"],
     [input |-> "2026-11-05T10:00:20", second |-> 36020,
      iso |-> "2026-11-05T07:00:20.000Z", shown |-> "Thu, Nov 5, 10:00 AM"],
     [input |-> "2026-11-05T10:00:40", second |-> 36040,
      iso |-> "2026-11-05T07:00:40.000Z", shown |-> "Thu, Nov 5, 10:00 AM"],
     [input |-> "2026-11-05T11:15", second |-> 40500,
      iso |-> "2026-11-05T08:15:00.000Z", shown |-> "Thu, Nov 5, 11:15 AM"],
     [input |-> "2026-11-05T12:30", second |-> 45000,
      iso |-> "2026-11-05T09:30:00.000Z", shown |-> "Thu, Nov 5, 12:30 PM"],
     [input |-> "2026-11-06T10:00", second |-> 122400,
      iso |-> "2026-11-06T07:00:00.000Z", shown |-> "Fri, Nov 6, 10:00 AM"]}

DateRows(s) == {r \in DateTable : r.input = s \/ r.iso = s}
ValidDate(s) == DateRows(s) # {}
DateRow(s) == CHOOSE r \in DateRows(s) : TRUE

\* formatDate
formatDate(iso) ==
    IF iso = "" THEN "TBA"
    ELSE IF ValidDate(iso) THEN DateRow(iso).shown ELSE "Invalid Date"

\* a duration that is not held back when it is zero or negative
computeDurationUnguarded(startIso, endIso) ==
    IF startIso = "" \/ endIso = "" THEN <<>>
    ELSE IF ~ValidDate(startIso) \/ ~ValidDate(endIso) THEN <<>>
    ELSE LET secs == DateRow(endIso).second - DateRow(startIso).second
             mins == IF secs <= 0 THEN 0 ELSE MathRound(secs, 60)
         IN IF mins <= 0 THEN <<"0", "h", " ", "0", "m">>
            ELSE Digits(mins \div 60) \o <<"h", " ">> \o Digits(mins % 60) \o <<"m">>

\* computeDuration: '' or <<h, m>> for `${h}h ${m}m`
computeDuration(startIso, endIso) ==
    IF startIso = "" \/ endIso = "" THEN <<>>
    ELSE IF ~ValidDate(startIso) \/ ~ValidDate(endIso) THEN <<>>
    ELSE LET secs == DateRow(endIso).second - DateRow(startIso).second
             mins == IF secs <= 0 THEN 0 ELSE MathRound(secs, 60)
         IN IF mins <= 0 THEN <<>>
            ELSE Digits(mins \div 60) \o <<"h", " ">> \o Digits(mins % 60) \o <<"m">>

\* fmtKES: n is a number, or NaN for null, undefined and not-a-number
NaN == -1
fmtKES(n) == IF n = NaN THEN <<"KES N/A">> ELSE IntlKES(n)

(***************************************************************************)
(* The clock.  now counts milliseconds from the local midnight that opens  *)
(* the session's first day, an instant whose epoch reading ends in six     *)
(* zeros, so the last six digits of getTime() are those of now.            *)
(***************************************************************************)
IdModulus == 1000000
MsPerDay == 86400000
SessionYear == 2026
SessionMonth == 11
SessionDay == 4

\* the digits of getTime(), last IdDigits of them
IdDigits == 6
TimeTail(t) == SliceLast(PadStart(Digits(t), IdDigits), IdDigits)

\* `${getFullYear()}${pad(getMonth()+1)}${pad(getDate())}` at clock reading t
DateStamp(t) ==
    Digits(SessionYear) \o PadStart(Digits(SessionMonth), 2)
        \o PadStart(Digits(SessionDay + (t \div MsPerDay)), 2)

\* the booking id of a submission handled at clock reading t
BookingId(t) == <<"HT-">> \o DateStamp(t) \o <<"-">> \o TimeTail(t)

(***************************************************************************)
(* Objects.  Every object carries undefinedKeys, the own keys whose value  *)
(* is undefined (JSON.stringify drops them); a key that is no field of the *)
(* record and not in undefinedKeys is absent.                              *)
(***************************************************************************)
EmptyObject == [undefinedKeys |-> {}]
Has(d, k) == k \in DOMAIN d

\* data.k || dflt for a text key, a string key
TextOr(d, k, dflt) == IF Has(d, k) /\ d[k] # <<>> THEN d[k] ELSE dflt
StrOr(d, k, dflt) == IF Has(d, k) /\ d[k] # "" THEN d[k] ELSE dflt
\* data.k for a numeric key: NaN stands for undefined, null and NaN
NumOf(d, k) == IF Has(d, k) THEN d[k] ELSE NaN
\* data.k || 0
NumOr0(d, k) == IF NumOf(d, k) = NaN THEN 0 ELSE d[k]

\* the object literal ticketData of the submit handler
TicketData(bookingId, passengerName, phone, email, tr, prov, cls, f) ==
    LET origin == IF f.origin # <<>> THEN f.origin ELSE <<"Nairobi">>
        destination == IF f.destination # <<>> THEN f.destination ELSE <<"TBA">>
        price == getPrice(tr, cls)
        taxes == MathRound(price * 5, 100)
        total == price + taxes
    IN [bookingId |-> bookingId,
        passengerName |-> passengerName,
        contactPhone |-> phone,
        contactEmail |-> email,
        transportType |-> tr,
        provider |-> prov,
        classOrSeat |-> cls,
        route |-> [origin |-> origin, destination |-> destination],
        departDateTime |-> DateRow(f.startDate).iso,
        arriveDateTime |-> IF f.endDate # "" THEN DateRow(f.endDate).iso ELSE "",
        duration |-> <<>>,
        price |-> price,
        taxes |-> taxes,
        total |-> total,
        additionalNotes |-> <<"Auto-generated ticket. Please arrive on time.">>,
        mapLink |-> <<"https://www.google.com/maps/dir/?api=1&origin=">>
                        \o encodeURIComponent(origin) \o <<"&destination=">>
                        \o encodeURIComponent(destination),
        qrPayload |-> <<"https://harmonytravels.example/verify/">> \o bookingId,
        logoUrl |-> <<>>,
        undefinedKeys |-> {"distanceKm"}]

\* a total that leaves the taxes out
TotalWithoutTaxes(data) == NumOr0(data, "price")

\* const total = data.total ?? ((data.price || 0) + (data.taxes || 0))
TotalOf(data) ==
    IF Has(data, "total") THEN data.total
    ELSE NumOr0(data, "price") + NumOr0(data, "taxes")

\* a fallback payload that is the same for every record
QrPayloadFixed(data) == TextOr(data, "qrPayload", <<"Booking:", "TBA">>)

\* the payload init hands to renderQR
QrPayloadOf(data) ==
    TextOr(data, "qrPayload", <<"Booking:">> \o TextOr(data, "bookingId", <<"TBA">>))

\* const arrive = data.arriveDateTime ? formatDate(data.arriveDateTime) : 'TBA'
ArriveText(arriveIso) == IF arriveIso # "" THEN formatDate(arriveIso) ELSE "TBA"

\* a duration cell without the 'TBA' fallback
DurationTextBlank(data) ==
    IF TextOr(data, "duration", <<>>) # <<>> THEN data.duration
    ELSE computeDuration(StrOr(data, "departDateTime", ""),
                         StrOr(data, "arriveDateTime", ""))

\* const duration = data.duration || computeDuration(...) || 'TBA'
DurationText(data) ==
    LET computed == computeDuration(StrOr(data, "departDateTime", ""),
                                    StrOr(data, "arriveDateTime", ""))
    IN IF TextOr(data, "duration", <<>>) # <<>> THEN data.duration
       ELSE IF computed # <<>> THEN computed ELSE <<"TBA">>

\* buildHtml: the text nodes of the fragment; qr is filled by renderQR
buildHtml(data) ==
    LET departIso == StrOr(data, "departDateTime", "")
        arriveIso == StrOr(data, "arriveDateTime", "")
        duration == DurationText(data)
        route == IF Has(data, "route") THEN data.route ELSE [origin |-> <<>>, destination |-> <<>>]
    IN [bookingId |-> TextOr(data, "bookingId", <<"HT-TBA">>),
        passengerName |-> TextOr(data, "passengerName", <<"Passenger Name">>),
        contactPhone |-> TextOr(data, "contactPhone", <<>>),
        contactEmail |-> TextOr(data, "contactEmail", <<>>),
        origin |-> IF route.origin # <<>> THEN route.origin ELSE <<"Origin">>,
        destination |-> IF route.destination # <<>> THEN route.destination ELSE <<"Destination">>,
        distance |-> IF NumOr0(data, "distanceKm") # 0
                     THEN Digits(data.distanceKm) \o <<" km">> ELSE <<"-">>,
        transportType |-> StrOr(data, "transportType", "Transport"),
        provider |-> StrOr(data, "provider", "Provider"),
        classOrSeat |-> StrOr(data, "classOrSeat", "Class / Seat"),
        depart |-> formatDate(departIso),
        arrive |-> ArriveText(arriveIso),
        duration |-> duration,
        price |-> fmtKES(NumOf(data, "price")),
        taxes |-> fmtKES(NumOr0(data, "taxes")),
        total |-> fmtKES(TotalOf(data)),
        notes |-> TextOr(data, "additionalNotes",
                         <<"Please bring your ID. Baggage rules apply.">>),
        mapLink |-> TextOr(data, "mapLink", <<>>),
        ref |-> TextOr(data, "bookingId", <<"-">>),
        qr |-> <<>>]

EmptyHtml == [empty |-> TRUE]

\* JSON.stringify: keys whose value is undefined are dropped
Serialize(data) == [data EXCEPT !.undefinedKeys = {}]

\* a file name that carries the time of the download
FileNameStamped(data, ext) ==
    <<"HarmonyTravels_Ticket_">> \o Digits(now) \o <<".", ext>>

\* a stem that takes the booking id as it is
FileIdRaw(data) ==
    IF TextOr(data, "bookingId", <<>>) # <<>> THEN data.bookingId ELSE <<"ticket">>

\* the file name stem of a download
FileId(data) ==
    IF TextOr(data, "bookingId", <<>>) # <<>>
    THEN ReplaceWhitespaceRuns(data.bookingId) ELSE <<"ticket">>
FileName(data, ext) == <<"HarmonyTravels_Ticket_">> \o FileId(data) \o <<".", ext>>

(***************************************************************************)
(* The page.  The message a handler puts into #toast is out.said of the    *)
(* step that ran the handler.                                              *)
(***************************************************************************)
NoElement == ""
\* document.querySelector(selector); the page holds #ticketContainer and,
\* after it, #otherContainer
Element(selector) ==
    IF selector = "#ticketContainer" THEN "ticketContainer"
    ELSE IF selector = "#otherContainer" THEN "otherContainer"
    ELSE NoElement

\* the option #transport shows when the form is created or reset
DefaultTransport == "Bus"

EmptyText ==
    [passengerName |-> <<>>, phone |-> <<>>, email |-> <<>>, origin |-> <<>>,
     destination |-> <<>>, startDate |-> "", endDate |-> ""]

\* what a handler run shows: the handler, an alert() text, an uncaught
\* exception or rejection, the toast text, a downloaded file's name, the text
\* written to the clipboard, what was printed, and whether the export was
\* invoked before any render; prev: what was on show when the export that
\* has now resumed was invoked; placed: the image pdf.addImage put on the
\* page, with the canvas it came from; view: the body written into the
\* window printTicket opened
NoPrev == ""
OutNone ==
    [op |-> "", alert |-> "", fault |-> "", said |-> <<>>, file |-> <<>>,
     clip |-> <<>>, printed |-> "", early |-> FALSE, prev |-> NoPrev,
     resolved |-> 0, placed |-> <<>>, view |-> <<>>]

\* a populate that offers one category's classes whatever was selected
ClassesOfOneCategory(t) == IF t = "" THEN <<>> ELSE ClassNames("Bus")

\* populateOptions(t): the options of #provider and #travelClass
OptionsKnown(t) == t \in DOMAIN PRICE_MATRIX
ProvidersOf(t) == IF OptionsKnown(t) THEN PRICE_MATRIX[t].providers ELSE <<>>
ClassesOf(t) == IF OptionsKnown(t) THEN ClassNames(t) ELSE <<>>

(***************************************************************************)
(* #toast.  Timers count the time they still have to run in ticks of       *)
(* TickMs milliseconds of the event loop's time, which is kept apart from  *)
(* the wall-clock readings in now.                                         *)
(*   show    the element has the class 'show'                              *)
(*   timer   t._timer, the timer of the latest showToast, while it runs    *)
(*   strays  the timers of the submit handler, which no handle keeps,      *)
(*           soonest first                                                 *)
(*   left    the time the message on show is still to stay, from the       *)
(*           duration it was shown with                                    *)
(***************************************************************************)
TickMs == 200
ToastMs == 1600   \* showToast(msg, ms=1600)
SubmitMs == 1800  \* setTimeout(..., 1800) of the submit handler
NoToast == [show |-> FALSE, timer |-> <<>>, strays |-> <<>>, left |-> 0]

\* a showToast that sets no timer
showToastSetsNoTimer(t) ==
    [show |-> TRUE, timer |-> <<>>, strays |-> t.strays, left |-> ToastMs \div TickMs]

\* showToast(msg): t.classList.add('show'); clearTimeout(t._timer);
\* t._timer = setTimeout(() => t.classList.remove('show'), ms)
showToast(t) ==
    [show |-> TRUE, timer |-> <<ToastMs \div TickMs>>, strays |-> t.strays,
     left |-> ToastMs \div TickMs]

\* the submit handler: t.classList.add('show');
\* setTimeout(() => t.classList.remove('show'), 1800)
SubmitToast(t) ==
    [show |-> TRUE, timer |-> t.timer, strays |-> Append(t.strays, SubmitMs \div TickMs),
     left |-> SubmitMs \div TickMs]

\* #toast after a handler run with outcome o: the submit handler writes
\* its message itself, every other message goes through showToast
ToastAfter(o) ==
    IF o.said = <<>> THEN toast
    ELSE IF o.op = "submit" THEN SubmitToast(toast)
    ELSE showToast(toast)

(***************************************************************************)
(* The site script (src/unnamed/part_000, lines 1-462; lines 467-844 hold  *)
(* the same script once more, without its comments) at page load.          *)
(***************************************************************************)
\* the elements the script looks up by id; a page may lack some
AllElements == [header |-> TRUE, mapFrame |-> TRUE, newsletterModal |-> TRUE]
SiteConfigs ==
    {AllElements, [AllElements EXCEPT !.header = FALSE],
     [AllElements EXCEPT !.mapFrame = FALSE],
     [AllElements EXCEPT !.newsletterModal = FALSE]}

\* #site-header as the markup gives it: no inline top, neither class
HeaderAtLoad == [top |-> "", pinned |-> FALSE, scrolled |-> FALSE]

NothingSeen ==
    [lastMove |-> "none", everDown |-> FALSE, opens |-> 0, esc |-> {}, loads |-> 1]

\* the page once the script has run, in a new session, at the top of the
\* document: lastScrollY is the scroll position (line 42); the call
\* onScroll() of line 91 has requested a frame and set ticking; the modals
\* are closed as the markup has them; newsletterShown is read from the
\* session storage (line 296)
SiteInit(d) ==
    /\ dom = d
    /\ pageY = 0
    /\ lastScrollY = 0
    /\ ticking = TRUE
    /\ frames = <<0>>
    /\ hideTimer = <<>>
    /\ header = HeaderAtLoad
    /\ backShow = FALSE
    /\ sessionNews = ""
    /\ newsletterShown = FALSE
    /\ mapModal = "true"
    /\ mapFrame = <<>>
    /\ footerMapModal = "true"
    /\ footerMapFrame = <<>>
    /\ newsletterModal = "true"
    /\ moreModals = <<>>
    /\ seen = NothingSeen

\* the configurations of third-party globals explored
LibConfigs ==
    {[html2canvas |-> TRUE, jspdf |-> TRUE, qrcode |-> TRUE],
     [html2canvas |-> FALSE, jspdf |-> TRUE, qrcode |-> TRUE],
     [html2canvas |-> TRUE, jspdf |-> FALSE, qrcode |-> TRUE]}

\* the booking page before any handler has run
TicketInit ==
    /\ text = EmptyText
    /\ transport = DefaultTransport
    /\ providerOpts = ProvidersOf(DefaultTransport)
    /\ classOpts = ClassesOf(DefaultTransport)
    /\ provider = FirstOption(providerOpts)
    /\ travelClass = FirstOption(classOpts)
    /\ priceDisplay = PriceText(getPrice(transport, travelClass))
    /\ container = NoElement
    /\ currentData = Null
    /\ qrInstance = Null
    /\ ticketHtml = EmptyHtml
    /\ otherHtml = EmptyHtml
    /\ wired = FALSE
    /\ store = <<>>
    /\ now = 0
    /\ libs \in LibConfigs
    /\ pending = <<>>
    /\ toast = NoToast
    /\ out = OutNone

Init == TicketInit /\ SiteInit(AllElements)

(***************************************************************************)
(* The form.                                                               *)
(***************************************************************************)
\* the user edits the text inputs: no handler of the page runs
UserEdits(v) ==
    /\ text' = v
    /\ text' # text
    /\ out' = OutNone        \* out holds the outcome of the step just taken
    /\ UNCHANGED <<transport, provider, travelClass, providerOpts, classOpts,
                   priceDisplay, rendererVars, ticketHtml, otherHtml, wired, store, now,
                   libs, pending>>
    /\ toast' = ToastAfter(out')
    /\ UNCHANGED siteVars

\* transportEl 'change' -> populateOptions(transportEl.value)
TransportChange(t) ==
    /\ transport' = t
    /\ providerOpts' = ProvidersOf(t)
    /\ classOpts' = ClassesOf(t)
    /\ provider' = FirstOption(providerOpts')
    /\ travelClass' = FirstOption(classOpts')
    /\ priceDisplay' = IF OptionsKnown(t)
                       THEN PriceText(getPrice(t, travelClass'))
                       ELSE priceDisplay
    /\ out' = OutNone
    /\ UNCHANGED <<text, rendererVars, ticketHtml, otherHtml, wired, store, now, libs, pending>>
    /\ toast' = ToastAfter(out')
    /\ UNCHANGED siteVars

\* classEl 'change' -> updatePrice
ClassChange(c) ==
    /\ c \in Range(classOpts)
    /\ travelClass' = c
    /\ priceDisplay' = PriceText(getPrice(transport, c))
    /\ out' = OutNone
    /\ UNCHANGED <<text, transport, provider, providerOpts, classOpts,
                   rendererVars, ticketHtml, otherHtml, wired, store, now, libs, pending>>
    /\ toast' = ToastAfter(out')
    /\ UNCHANGED siteVars

\* providerEl 'change' -> updatePrice
ProviderChange(p) ==
    /\ p \in Range(providerOpts)
    /\ provider' = p
    /\ priceDisplay' = PriceText(getPrice(transport, travelClass))
    /\ out' = OutNone
    /\ UNCHANGED <<text, transport, travelClass, providerOpts, classOpts,
                   rendererVars, ticketHtml, otherHtml, wired, store, now, libs, pending>>
    /\ toast' = ToastAfter(out')
    /\ UNCHANGED siteVars

\* estimateBtn 'click' -> updatePrice
EstimateClick ==
    /\ priceDisplay' = PriceText(getPrice(transport, travelClass))
    /\ out' = OutNone
    /\ UNCHANGED <<formVars, rendererVars, ticketHtml, otherHtml, wired, store, now, libs,
                   pending>>
    /\ toast' = ToastAfter(out')
    /\ UNCHANGED siteVars

\* a call of getPrice() on the current values of the two selects;
\* out.resolved is what it returns
GetPriceCall ==
    /\ out' = IF getPriceThrows(transport, travelClass)
              THEN [OutNone EXCEPT !.op = "getPrice",
                       !.fault = "TypeError: Cannot read properties of undefined"]
              ELSE [OutNone EXCEPT !.op = "getPrice",
                       !.resolved = getPrice(transport, travelClass)]
    /\ UNCHANGED <<formVars, priceDisplay, rendererVars, ticketHtml, otherHtml, wired, store,
                   now, libs, pending>>
    /\ toast' = ToastAfter(out')
    /\ UNCHANGED siteVars

\* resetBtn 'click': bookingForm.reset(), populateOptions, updatePrice, and
\* the preview is emptied
ResetClick ==
    /\ text' = EmptyText
    /\ transport' = DefaultTransport
    /\ providerOpts' = ProvidersOf(DefaultTransport)
    /\ classOpts' = ClassesOf(DefaultTransport)
    /\ provider' = FirstOption(providerOpts')
    /\ travelClass' = FirstOption(classOpts')
    /\ priceDisplay' = PriceText(getPrice(transport', travelClass'))
    /\ ticketHtml' = EmptyHtml
    /\ out' = [OutNone EXCEPT !.op = "reset"]
    /\ UNCHANGED <<rendererVars, otherHtml, wired, store, now, libs, pending>>
    /\ toast' = ToastAfter(out')
    /\ UNCHANGED siteVars

(***************************************************************************)
(* TicketRenderer.init and the submit handler.                             *)
(***************************************************************************)
\* an init that keeps a record it already holds
InitDataKeepsFirst(data) ==
    IF currentData # Null THEN currentData
    ELSE IF data = Null THEN EmptyObject ELSE data

\* currentData = data || {}
InitData(data) == IF data = Null THEN EmptyObject ELSE data

\* container.innerHTML = buildHtml(currentData), then renderQR(payload):
\* new QRCode(el, ...) throws when the QRCode global is missing, and the
\* region stays empty
RenderedHtml(data) ==
    [buildHtml(data) EXCEPT !.qr = IF libs.qrcode THEN QrPayloadOf(data) ELSE <<>>]

\* renderQR looks its region up with document.getElementById(
\* 'ticket-qr-container'): of the regions in the document, the first.  Every
\* rendered fragment brings one, and #ticketContainer comes first.
QrOwner(target) ==
    IF target = "ticketContainer" \/ ticketHtml # EmptyHtml
    THEN "ticketContainer" ELSE "otherContainer"

\* el.innerHTML = '' and then new QRCode(el, {text: payload})
WithQr(html, data) ==
    [html EXCEPT !.qr = IF libs.qrcode THEN QrPayloadOf(data) ELSE <<>>]

\* the content of the two containers after init(target, data)
TicketHtmlAfter(target, data) ==
    LET written == IF target = "ticketContainer" THEN buildHtml(data) ELSE ticketHtml
    IN IF QrOwner(target) = "ticketContainer" THEN WithQr(written, data) ELSE written
OtherHtmlAfter(target, data) ==
    LET written == IF target = "otherContainer" THEN buildHtml(data) ELSE otherHtml
    IN IF QrOwner(target) = "otherContainer" THEN WithQr(written, data) ELSE written

QrAfter(data) == IF libs.qrcode THEN [text |-> QrPayloadOf(data)] ELSE qrInstance

\* a validation that compares the fields untrimmed
RejectedUntrimmed(f) ==
    \/ f.passengerName = <<>>
    \/ f.phone = <<>>
    \/ f.email = <<>>
    \/ f.startDate = ""

\* the validation of the submit handler: TRUE when the submission is rejected
Rejected(f) ==
    \/ Trim(f.passengerName) = <<>>
    \/ Trim(f.phone) = <<>>
    \/ Trim(f.email) = <<>>
    \/ f.startDate = ""

\* new Date(startDate).toISOString() and new Date(endDate).toISOString()
\* throw a RangeError on an Invalid Date
DatesThrow(f) ==
    \/ ~ValidDate(f.startDate)
    \/ f.endDate # "" /\ ~ValidDate(f.endDate)

\* the clock advances by 1 ms or by IdModulus ms between two readings, so
\* a reading tells how many there have been
ClockReads(t) == (t \div IdModulus) + (t % IdModulus)

RequiredAlert == "Please fill required fields (name, phone, email, depart date)."
CreatedToast(bookingId) == <<"Booking ">> \o bookingId \o <<" created - ticket ready">>
StoreKey(bookingId) == <<"booking_">> \o bookingId

\* sessionStorage.setItem(key, value)
SetItem(st, key, value) ==
    [k \in DOMAIN st \cup {key} |-> IF k = key THEN value ELSE st[k]]

\* the record the submit handler builds from the form at clock reading t
BuiltRecord(t) ==
    TicketData(BookingId(t), Trim(text.passengerName), Trim(text.phone),
               Trim(text.email), transport, provider, travelClass, text)

\* bookingForm 'submit', handled when the clock has advanced by d;
\* storageOk: sessionStorage.setItem does not throw
SubmitForm(d, storageOk) ==
  /\ IF Rejected(text)
    THEN /\ out' = [OutNone EXCEPT !.op = "submit", !.alert = RequiredAlert]
         /\ UNCHANGED <<formVars, priceDisplay, rendererVars, ticketHtml, otherHtml, wired,
                        store, now, libs, pending>>
    ELSE /\ ClockReads(now) < MaxClockReads
         /\ now' = now + d
         /\ IF DatesThrow(text)
            THEN /\ out' = [OutNone EXCEPT !.op = "submit",
                               !.fault = "RangeError: Invalid time value"]
                 /\ UNCHANGED <<formVars, priceDisplay, rendererVars, ticketHtml, otherHtml,
                                wired, store, libs, pending>>
            ELSE LET data == BuiltRecord(now')
                 IN /\ container' = Element("#ticketContainer")
                    /\ currentData' = InitData(data)
                    /\ ticketHtml' = RenderedHtml(currentData')
                    /\ qrInstance' = QrAfter(currentData')
                    /\ wired' = TRUE
                    /\ store' = IF storageOk
                                THEN SetItem(store, StoreKey(data.bookingId), Serialize(data))
                                ELSE store
                    /\ out' = [OutNone EXCEPT !.op = "submit",
                                  !.said = CreatedToast(data.bookingId)]
                    /\ UNCHANGED <<formVars, priceDisplay, otherHtml, libs, pending>>
  /\ toast' = ToastAfter(out')
  /\ UNCHANGED siteVars

\* a direct call TicketRenderer.init(selector, data)
ApiInit(selector, data) ==
    /\ container' = Element(selector)
    /\ IF container' = NoElement
       THEN /\ out' = [OutNone EXCEPT !.op = "init", !.fault = "Error: Container not found"]
            /\ UNCHANGED <<currentData, qrInstance, ticketHtml, otherHtml>>
       ELSE /\ currentData' = InitData(data)
            /\ ticketHtml' = TicketHtmlAfter(container', currentData')
            /\ otherHtml' = OtherHtmlAfter(container', currentData')
            /\ qrInstance' = QrAfter(currentData')
            /\ out' = [OutNone EXCEPT !.op = "init"]
    /\ UNCHANGED <<formVars, priceDisplay, wired, store, now, libs, pending>>
    /\ toast' = ToastAfter(out')
    /\ UNCHANGED siteVars

(***************************************************************************)
(* The exports.  An async export runs to its await, is suspended in        *)
(* pending while other handlers run, and resumes in ExportSettles.         *)
(***************************************************************************)
OpName(kind) == IF kind = "png" THEN "downloadPNG"
                ELSE IF kind = "pdf" THEN "downloadPDF" ELSE "copyBookingId"

\* whether the outcome on show is one of this export, and which
PrevOutcome(kind) ==
    IF out.op # OpName(kind) THEN NoPrev
    ELSE IF out.file # <<>> \/ out.clip # <<>> THEN "done" ELSE "failed"

\* early: invoked before any render; shown: the booking id of the record
\* whose ticket was on show when the export was invoked, the ticket the
\* capture started on
Suspended(kind, id) ==
    [kind |-> kind, id |-> id, early |-> currentData = Null,
     shown |-> IF currentData = Null THEN <<>> ELSE TextOr(currentData, "bookingId", <<>>)]

\* an export that starts keeps in out.prev what was on show; the outcome
\* carries it when nothing else has run or is in flight since the start
Started(kind) == [OutNone EXCEPT !.prev = PrevOutcome(kind)]
CarriedPrev == IF out.op = "" /\ Len(pending) = 1 THEN out.prev ELSE NoPrev

RemoveAt(q, i) == [j \in 1..(Len(q) - 1) |-> IF j < i THEN q[j] ELSE q[j + 1]]

FailedAlert(kind) == IF kind = "png" THEN "PNG generation failed." ELSE "PDF generation failed."
DoneToast(kind) == IF kind = "png" THEN <<"PNG downloaded">> ELSE <<"PDF downloaded">>
\* the try block up to await captureToCanvas(elem): elem is #ticketContainer;
\* captureToCanvas throws when html2canvas is missing, which the catch reports
CaptureStarts(kind) ==
    IF ~libs.html2canvas
    THEN /\ out' = [OutNone EXCEPT !.op = OpName(kind), !.alert = FailedAlert(kind),
                       !.early = currentData = Null]
         /\ UNCHANGED pending
    ELSE /\ Len(pending) < MaxPending
         /\ pending' = Append(pending, Suspended(kind, <<>>))
         /\ out' = Started(kind)

\* TicketRenderer.downloadPNG()
DownloadPNG ==
    /\ CaptureStarts("png")
    /\ UNCHANGED <<formVars, priceDisplay, rendererVars, ticketHtml, otherHtml, wired, store,
                   now, libs>>
    /\ toast' = ToastAfter(out')
    /\ UNCHANGED siteVars

\* the guard of downloadPDF: !window.jspdf && !window.jspdf.jsPDF reads
\* a property of undefined when window.jspdf is missing
PdfGuardThrows == ~libs.jspdf

\* TicketRenderer.downloadPDF()
DownloadPDF ==
    /\ IF PdfGuardThrows
       THEN /\ out' = [OutNone EXCEPT !.op = "downloadPDF",
                          !.fault = "TypeError: Cannot read properties of undefined",
                          !.early = currentData = Null]
            /\ UNCHANGED pending
       ELSE CaptureStarts("pdf")
    /\ UNCHANGED <<formVars, priceDisplay, rendererVars, ticketHtml, otherHtml, wired, store,
                   now, libs>>
    /\ toast' = ToastAfter(out')
    /\ UNCHANGED siteVars

(***************************************************************************)
(* The placement of the captured image on the PDF page.  Lengths are exact *)
(* fractions n/d with d > 0: the code divides image dimensions.            *)
(***************************************************************************)
Frac(n, d) == [n |-> n, d |-> d]
FracLess(a, b) == a.n * b.d < b.n * a.d
FracEq(a, b) == a.n * b.d = b.n * a.d
FracLeq(a, b) == a.n * b.d <= b.n * a.d
\* (whole - a) / 2
HalfRest(whole, a) == Frac(whole * a.d - a.n, 2 * a.d)

\* new jsPDF({ orientation: 'landscape', unit: 'mm', format: 'a4' }):
\* pdf.internal.pageSize in mm, to the millimetre
PageWidth == 297
PageHeight == 210

\* a placement that always fills the page's width
PlaceFullWidth(img) ==
    [img |-> img,
     w |-> Frac(PageWidth, 1),
     h |-> Frac(img.height * PageWidth, img.width),
     x |-> HalfRest(PageWidth, Frac(PageWidth, 1)),
     y |-> HalfRest(PageHeight, Frac(img.height * PageWidth, img.width))]

\* let w = pageWidth; let h = (imgProps.height / imgProps.width) * w;
\* if (h > pageHeight) { h = pageHeight; w = (imgProps.width / imgProps.height) * h; }
\* x = (pageWidth - w) / 2; y = (pageHeight - h) / 2
Place(img) ==
    LET w0 == Frac(PageWidth, 1)
        h0 == Frac(img.height * PageWidth, img.width)
        over == FracLess(Frac(PageHeight, 1), h0)
        h == IF over THEN Frac(PageHeight, 1) ELSE h0
        w == IF over THEN Frac(img.width * PageHeight, img.height) ELSE w0
    IN [img |-> img, w |-> w, h |-> h,
        x |-> HalfRest(PageWidth, w), y |-> HalfRest(PageHeight, h)]

\* what pdf.addImage received; downloadPNG places nothing
Placed(kind, img) == IF kind = "pdf" THEN <<Place(img)>> ELSE <<>>

\* the canvas html2canvas gives for the ticket card at scale 2
TicketCanvas == [width |-> 1600, height |-> 900]

\* a resumption without the catch: a failed capture rejects the export
DownloadResumesUncaught(e, ok, img) ==
    IF ~ok \/ currentData = Null
    THEN out' = [OutNone EXCEPT !.op = OpName(e.kind), !.fault = "Error: capture failed",
                    !.early = e.early, !.prev = CarriedPrev,
                    !.placed = IF ok THEN Placed(e.kind, img) ELSE <<>>]
    ELSE out' = [OutNone EXCEPT !.op = OpName(e.kind),
                    !.file = FileName(currentData, e.kind),
                    !.said = DoneToast(e.kind), !.early = e.early, !.prev = CarriedPrev,
                    !.placed = Placed(e.kind, img)]

\* the rest of downloadPNG / downloadPDF once html2canvas has settled;
\* ok: the capture and the encoding succeeded; img: the size of the canvas.
\* currentData.bookingId throws on a null currentData, inside the try,
\* after pdf.addImage
DownloadResumes(e, ok, img) ==
    IF ~ok \/ currentData = Null
    THEN out' = [OutNone EXCEPT !.op = OpName(e.kind), !.alert = FailedAlert(e.kind),
                    !.early = e.early, !.prev = CarriedPrev,
                    !.placed = IF ok THEN Placed(e.kind, img) ELSE <<>>]
    ELSE out' = [OutNone EXCEPT !.op = OpName(e.kind),
                    !.file = FileName(currentData, e.kind),
                    !.said = DoneToast(e.kind), !.early = e.early, !.prev = CarriedPrev,
                    !.placed = Placed(e.kind, img)]

\* a copy that says nothing when the clipboard refuses the write
CopyResumesSilent(e, ok) ==
    out' = [OutNone EXCEPT !.op = "copyBookingId",
               !.said = IF ok THEN <<"Booking ID copied">> ELSE <<>>,
               !.clip = IF ok THEN e.id ELSE <<>>, !.early = e.early,
               !.prev = CarriedPrev]

\* the rest of copyBookingId once navigator.clipboard.writeText has settled
CopyResumes(e, ok) ==
    out' = [OutNone EXCEPT !.op = "copyBookingId",
               !.said = IF ok THEN <<"Booking ID copied">> ELSE <<"Copy failed">>,
               !.clip = IF ok THEN e.id ELSE <<>>, !.early = e.early,
               !.prev = CarriedPrev]

\* a suspended export resumes; img: the canvas the capture gave
ExportSettlesSized(i, ok, img) ==
    /\ i \in 1..Len(pending)
    /\ pending' = RemoveAt(pending, i)
    /\ IF pending[i].kind = "copy"
       THEN CopyResumes(pending[i], ok)
       ELSE DownloadResumes(pending[i], ok, img)
    /\ UNCHANGED <<formVars, priceDisplay, rendererVars, ticketHtml, otherHtml, wired, store,
                   now, libs>>
    /\ toast' = ToastAfter(out')
    /\ UNCHANGED siteVars

\* a suspended export resumes with the ticket card's canvas
ExportSettles(i, ok) == ExportSettlesSized(i, ok, TicketCanvas)

\* const id = currentData && currentData.bookingId ? currentData.bookingId : ''
CurrentId == IF currentData = Null THEN <<>> ELSE TextOr(currentData, "bookingId", <<>>)

\* TicketRenderer.copyBookingId()
CopyBookingId ==
    /\ IF CurrentId = <<>>
       THEN /\ out' = [OutNone EXCEPT !.op = "copyBookingId",
                          !.said = <<"No booking ID">>,
                          !.early = currentData = Null]
            /\ UNCHANGED pending
       ELSE /\ Len(pending) < MaxPending
            /\ pending' = Append(pending, Suspended("copy", CurrentId))
            /\ out' = Started("copy")
    /\ UNCHANGED <<formVars, priceDisplay, rendererVars, ticketHtml, otherHtml, wired, store,
                   now, libs>>
    /\ toast' = ToastAfter(out')
    /\ UNCHANGED siteVars

\* a print view written with no body
PopupBodyEmpty == <<EmptyHtml>>

\* <body>${container.outerHTML}</body>: the markup of the container the
\* renderer holds, as it is when the view is written
PopupBody == <<IF container = "otherContainer" THEN otherHtml ELSE ticketHtml>>

\* TicketRenderer.printTicket(); popupOk: window.open returned a window.
\* The popup is written with container.outerHTML and prints itself 600 ms
\* later.
PrintTicket(popupOk) ==
    /\ out' = IF container = NoElement
              THEN [OutNone EXCEPT !.op = "printTicket", !.printed = "page",
                       !.early = currentData = Null]
              ELSE IF ~popupOk
              THEN [OutNone EXCEPT !.op = "printTicket", !.alert = "Popup blocked",
                       !.early = currentData = Null]
              ELSE [OutNone EXCEPT !.op = "printTicket", !.printed = "popup",
                       !.view = PopupBody, !.early = currentData = Null]
    /\ UNCHANGED <<formVars, priceDisplay, rendererVars, ticketHtml, otherHtml, wired, store,
                   now, libs, pending>>
    /\ toast' = ToastAfter(out')
    /\ UNCHANGED siteVars

(***************************************************************************)
(* Time and the timers of #toast.  A timer fires when its time has run     *)
(* out, before more time passes.                                           *)
(***************************************************************************)
TimersOf(t) == t.timer \o t.strays
Less1(q) == [i \in 1..Len(q) |-> q[i] - 1]

\* TickMs milliseconds pass in which no handler runs
TimePasses ==
    /\ TimersOf(toast) # <<>>
    /\ \A i \in 1..Len(TimersOf(toast)) : TimersOf(toast)[i] > 0
    /\ toast' = [show |-> toast.show, timer |-> Less1(toast.timer),
                 strays |-> Less1(toast.strays),
                 left |-> IF toast.left > 0 THEN toast.left - 1 ELSE 0]
    /\ UNCHANGED <<formVars, priceDisplay, rendererVars, ticketHtml, otherHtml, wired,
                   store, now, libs, pending, out, siteVars>>

\* the timer of showToast fires: t.classList.remove('show')
ToastTimerFires ==
    /\ toast.timer = <<0>>
    /\ toast' = [toast EXCEPT !.show = FALSE, !.timer = <<>>]
    /\ UNCHANGED <<formVars, priceDisplay, rendererVars, ticketHtml, otherHtml, wired,
                   store, now, libs, pending, out, siteVars>>

\* a timer of the submit handler fires: t.classList.remove('show')
SubmitTimerFires ==
    /\ toast.strays # <<>>
    /\ Head(toast.strays) = 0
    /\ toast' = [toast EXCEPT !.show = FALSE, !.strays = Tail(toast.strays)]
    /\ UNCHANGED <<formVars, priceDisplay, rendererVars, ticketHtml, otherHtml, wired,
                   store, now, libs, pending, out, siteVars>>

\* a step of time or of a timer, in which no handler runs
TimerStep == TimePasses \/ ToastTimerFires \/ SubmitTimerFires

(***************************************************************************)
(* The site script: the header's shrink, pin and auto-hide (lines 41-92). *)
(* Time advances in ticks of FrameTickMs; a requested animation frame runs *)
(* before the next tick, a timer fires when its time has run out.          *)
(***************************************************************************)
SHRINK_Y == 60
HideMs == 850
FrameTickMs == 170
InnerHeight == 200     \* window.innerHeight
ScrollHeight == 800    \* document.body.scrollHeight
MaxLoads == 2          \* page loads of one session
MaxMore == 2           \* 'Learn more' modals in the document at once

\* scroll positions; a negative one is an overscroll at the top
Positions == {-20, 0, 100, 300}

\* scheduleAutoHide(), on the timer and the header hs
scheduleAutoHide(hs) ==
    IF ~dom.header THEN hs
    ELSE [hs EXCEPT !.hideTimer = <<HideMs \div FrameTickMs>>]

\* cancelAutoHide()
cancelAutoHide(hs) ==
    IF ~dom.header THEN hs
    ELSE [header |-> [hs.header EXCEPT !.top = "0"], hideTimer |-> <<>>]

\* header && header.classList.add / remove (name)
WithClass(h, name, on) == IF dom.header THEN [h EXCEPT ![name] = on] ELSE h

\* the callback given to requestAnimationFrame (lines 68-84), with the y
\* that onScroll read when it requested the frame
FrameCallback(y) ==
    LET up == y < lastScrollY
        classed == [header |-> WithClass(WithClass(header, "scrolled", y > SHRINK_Y),
                                         "pinned", up),
                    hideTimer |-> hideTimer]
    IN IF up THEN cancelAutoHide(classed) ELSE scheduleAutoHide(classed)

\* onScroll() at position y: a frame is requested unless one is awaited
OnScrollFrames(y) == IF ticking THEN frames ELSE Append(frames, y)

\* checkNewsletter() at position y; ok: sessionStorage.setItem does not throw
NewsOpens(y) == ~newsletterShown /\ 2 * (y + InnerHeight) > ScrollHeight

\* the backToTop listener: show = window.scrollY > scrollHeight * 0.15
BackShown(y) == 100 * y > 15 * ScrollHeight

\* the user scrolls the page to y: the scroll event runs onScroll,
\* checkNewsletter and the backToTop listener
ScrollTo(y, ok) ==
    /\ y \in Positions
    /\ y # pageY
    /\ pageY' = y
    /\ ticking' = TRUE
    /\ frames' = OnScrollFrames(y)
    /\ newsletterShown' = (newsletterShown \/ NewsOpens(y))
    /\ sessionNews' = IF NewsOpens(y) /\ ok THEN "1" ELSE sessionNews
    /\ newsletterModal' =
          IF NewsOpens(y) /\ dom.newsletterModal THEN "false" ELSE newsletterModal
    /\ backShow' = BackShown(y)
    /\ seen' = [seen EXCEPT !.lastMove = IF y < pageY THEN "up" ELSE "down",
                            !.everDown = @ \/ y > pageY,
                            !.opens = IF newsletterModal = "true" /\ newsletterModal' = "false"
                                      THEN @ + 1 ELSE @,
                            !.esc = {}]
    /\ UNCHANGED <<ticketVars, dom, lastScrollY, hideTimer, header, mapModal, mapFrame,
                   footerMapModal, footerMapFrame, moreModals>>

\* the browser runs the requested animation frame
FrameRuns ==
    /\ frames # <<>>
    /\ header' = FrameCallback(Head(frames)).header
    /\ hideTimer' = FrameCallback(Head(frames)).hideTimer
    /\ lastScrollY' = IF Head(frames) <= 0 THEN 0 ELSE Head(frames)
    /\ ticking' = FALSE
    /\ frames' = Tail(frames)
    /\ UNCHANGED <<ticketVars, dom, pageY, backShow, newsVars, modalVars, seen>>

\* FrameTickMs milliseconds pass on the page
SiteTimePasses ==
    /\ frames = <<>>
    /\ hideTimer # <<>>
    /\ hideTimer[1] > 0
    /\ hideTimer' = <<hideTimer[1] - 1>>
    /\ UNCHANGED <<ticketVars, dom, pageY, lastScrollY, ticking, frames, header, backShow,
                   newsVars, modalVars, seen>>

\* the auto-hide timeout fires: header.style.top = '-84px'
HideTimerFires ==
    /\ hideTimer = <<0>>
    /\ hideTimer' = <<>>
    /\ header' = [header EXCEPT !.top = "-84px"]
    /\ UNCHANGED <<ticketVars, dom, pageY, lastScrollY, ticking, frames, backShow,
                   newsVars, modalVars, seen>>

\* the page is loaded again in the same session, at the top or where the
\* browser restores the scroll position; the script runs as at the first
\* load, the session storage is the session's
Reload(restore) ==
    /\ seen.loads < MaxLoads
    /\ pageY' = IF restore /\ pageY > 0 THEN pageY ELSE 0
    /\ lastScrollY' = pageY'
    /\ ticking' = TRUE
    /\ frames' = <<pageY'>>
    /\ hideTimer' = <<>>
    /\ header' = HeaderAtLoad
    /\ backShow' = FALSE
    /\ newsletterShown' = (sessionNews = "1")
    /\ mapModal' = "true"
    /\ mapFrame' = <<>>
    /\ footerMapModal' = "true"
    /\ footerMapFrame' = <<>>
    /\ newsletterModal' = "true"
    /\ moreModals' = <<>>
    /\ seen' = [seen EXCEPT !.lastMove = "none", !.esc = {}, !.loads = @ + 1]
    /\ UNCHANGED <<ticketVars, dom, sessionNews>>

(***************************************************************************)
(* The site script: the map modals, the 'Learn more' modals, the           *)
(* newsletter modal and the Escape key (lines 230-334).  #mapModal,        *)
(* #footerMapModal, their close buttons and #openMap are taken to exist.   *)
(***************************************************************************)
\* data-map of the .map-toggle buttons and of #openMap
MapUrls == {"https://www.google.com/maps?q=Nairobi,Kenya&output=embed",
            "https://www.google.com/maps?q=Diani,Kenya&output=embed"}

\* the <iframe src="${url}" ...> written into a map frame
Iframe(url) == <<"<iframe src=\"", url, "\"></iframe>">>

\* a click on a .map-toggle button
MapToggleClick(url) ==
    /\ IF ~dom.mapFrame
       THEN UNCHANGED <<mapModal, mapFrame>>
       ELSE /\ mapFrame' = Iframe(url)
            /\ mapModal' = "false"
    /\ seen' = [seen EXCEPT !.esc = {}]
    /\ UNCHANGED <<ticketVars, dom, pageY, headerVars, backShow, newsVars, footerMapModal,
                   footerMapFrame, newsletterModal, moreModals>>

\* a click on #mapClose, or on #mapModal outside its panel
MapCloseClick ==
    /\ mapModal' = "true"
    /\ mapFrame' = IF dom.mapFrame THEN <<>> ELSE mapFrame
    /\ seen' = [seen EXCEPT !.esc = {}]
    /\ UNCHANGED <<ticketVars, dom, pageY, headerVars, backShow, newsVars, footerMapModal,
                   footerMapFrame, newsletterModal, moreModals>>

\* a click on #openMap
FooterMapClick(url) ==
    /\ footerMapFrame' = Iframe(url)
    /\ footerMapModal' = "false"
    /\ seen' = [seen EXCEPT !.esc = {}]
    /\ UNCHANGED <<ticketVars, dom, pageY, headerVars, backShow, newsVars, mapModal,
                   mapFrame, newsletterModal, moreModals>>

\* a click on #footerMapClose, or on #footerMapModal outside its panel
FooterMapCloseClick ==
    /\ footerMapModal' = "true"
    /\ footerMapFrame' = <<>>
    /\ seen' = [seen EXCEPT !.esc = {}]
    /\ UNCHANGED <<ticketVars, dom, pageY, headerVars, backShow, newsVars, mapModal,
                   mapFrame, newsletterModal, moreModals>>

\* data-more of the .more-btn buttons; "info" has no entry in contentMap
MoreKeys == {"maasai", "info"}

\* a click on a .more-btn button: a new div.modal, open, appended to body
MoreClick(key) ==
    /\ Len(moreModals) < MaxMore
    /\ moreModals' = Append(moreModals, [ariaHidden |-> "false", more |-> key])
    /\ seen' = [seen EXCEPT !.esc = {}]
    /\ UNCHANGED <<ticketVars, dom, pageY, headerVars, backShow, newsVars, mapModal,
                   mapFrame, footerMapModal, footerMapFrame, newsletterModal>>

\* a click on the .modal-close of a 'Learn more' modal, or on the modal
\* outside its panel: modal.remove()
MoreCloseClick(i) ==
    /\ i \in 1..Len(moreModals)
    /\ moreModals[i].ariaHidden = "false"
    /\ moreModals' = RemoveAt(moreModals, i)
    /\ seen' = [seen EXCEPT !.esc = {}]
    /\ UNCHANGED <<ticketVars, dom, pageY, headerVars, backShow, newsVars, mapModal,
                   mapFrame, footerMapModal, footerMapFrame, newsletterModal>>

\* a click on #newsletterClose
NewsletterCloseClick ==
    /\ newsletterModal' = "true"
    /\ seen' = [seen EXCEPT !.esc = {}]
    /\ UNCHANGED <<ticketVars, dom, pageY, headerVars, backShow, newsVars, mapModal,
                   mapFrame, footerMapModal, footerMapFrame, moreModals>>

\* #modalSubscribe is submitted: alert('Thanks! (demo)'), then the modal
\* is closed
ModalSubscribe ==
    /\ newsletterModal = "false"
    /\ newsletterModal' = "true"
    /\ seen' = [seen EXCEPT !.esc = {}]
    /\ UNCHANGED <<ticketVars, dom, pageY, headerVars, backShow, newsVars, mapModal,
                   mapFrame, footerMapModal, footerMapFrame, moreModals>>

\* an Escape handler that leaves the 'Learn more' modals alone
LeaveModalsOpen(ms) == ms

\* querySelectorAll('.modal[aria-hidden="false"]').forEach(m =>
\* m.setAttribute('aria-hidden','true'))
HideOpenModals(ms) == [i \in 1..Len(ms) |-> [ms[i] EXCEPT !.ariaHidden = "true"]]

\* the modals open now
OpenModals ==
    (IF mapModal = "false" THEN {"map"} ELSE {})
    \cup (IF footerMapModal = "false" THEN {"footer"} ELSE {})
    \cup (IF newsletterModal = "false" THEN {"newsletter"} ELSE {})
    \cup (IF \E i \in 1..Len(moreModals) : moreModals[i].ariaHidden = "false"
          THEN {"more"} ELSE {})

\* keydown with e.key === 'Escape'
EscapeKey ==
    /\ mapModal' = "true"
    /\ mapFrame' = IF mapModal = "false" /\ dom.mapFrame THEN <<>> ELSE mapFrame
    /\ footerMapModal' = "true"
    /\ footerMapFrame' = IF footerMapModal = "false" THEN <<>> ELSE footerMapFrame
    /\ newsletterModal' = "true"
    /\ moreModals' = HideOpenModals(moreModals)
    /\ seen' = [seen EXCEPT !.esc = OpenModals]
    /\ UNCHANGED <<ticketVars, dom, pageY, headerVars, backShow, newsVars>>

(***************************************************************************)
(* The inputs explored and the specifications.                             *)
(*   Spec            the renderer's life cycle: submissions, resets, direct*)
(*                   init calls and the exports, on one filled-in form     *)
(*   SpecSession     the same, the bookings of a session having ids of     *)
(*                   their own                                             *)
(*   SpecValidation  submissions of forms with a required field missing    *)
(*   SpecPricing     submissions over the whole rate table                 *)
(***************************************************************************)
Ann == <<" ", "A", "n", "n", " ">>
Filled ==
    [passengerName |-> Ann, phone |-> <<"0", "7">>, email |-> <<"a", "@", "b">>,
     origin |-> <<"V", "o", "i">>, destination |-> <<>>,
     startDate |-> "2026-11-05T10:00", endDate |-> ""]

Blank == {<<>>, <<" ">>, <<" ", "\t">>}
ValidationInputs ==
    {Filled}
    \cup {[Filled EXCEPT !.passengerName = b] : b \in Blank}
    \cup {[Filled EXCEPT !.phone = b] : b \in Blank}
    \cup {[Filled EXCEPT !.email = b] : b \in Blank}
    \cup {[Filled EXCEPT !.startDate = b] : b \in {"", " "}}

TransportChoices == {"Bus", "Flight", "Train", ""}
Elapsed == {1, IdModulus}
ApiSelectors == {"#ticketContainer", "#missing"}
ApiData == {Null}

Next ==
    \/ UserEdits(Filled)
    \/ EstimateClick
    \/ ResetClick
    \/ \E d \in Elapsed : SubmitForm(d, TRUE)
    \/ \E sel \in ApiSelectors, data \in ApiData : ApiInit(sel, data)
    \/ DownloadPNG
    \/ DownloadPDF
    \/ CopyBookingId
    \/ \E ok \in BOOLEAN : PrintTicket(ok)
    \/ \E i \in 1..MaxPending, ok \in BOOLEAN : ExportSettles(i, ok)

Spec == Init /\ [][Next]_vars

\* the same life cycle with every submission a millisecond after the clock
\* reading before it, so that no two bookings of the session share an id
NextSession ==
    \/ UserEdits(Filled)
    \/ EstimateClick
    \/ ResetClick
    \/ SubmitForm(1, TRUE)
    \/ \E sel \in ApiSelectors, data \in ApiData : ApiInit(sel, data)
    \/ DownloadPNG
    \/ DownloadPDF
    \/ CopyBookingId
    \/ \E ok \in BOOLEAN : PrintTicket(ok)
    \/ \E i \in 1..MaxPending, ok \in BOOLEAN : ExportSettles(i, ok)

SpecSession == Init /\ [][NextSession]_vars

NextValidation ==
    \/ \E v \in ValidationInputs : UserEdits(v)
    \/ \E p \in Range(providerOpts) : ProviderChange(p)
    \/ ResetClick
    \/ \E d \in Elapsed, ok \in BOOLEAN : SubmitForm(d, ok)

SpecValidation == Init /\ [][NextValidation]_vars

NextPricing ==
    \/ UserEdits(Filled)
    \/ \E t \in TransportChoices : TransportChange(t)
    \/ \E c \in Range(classOpts) : ClassChange(c)
    \/ EstimateClick
    \/ SubmitForm(1, TRUE)

SpecPricing == Init /\ [][NextPricing]_vars

\* Dates: forms with and without an arrive date, parsable or not, and
\* direct init calls with records whose timestamps are present, empty or
\* unparsable, with and without a duration of their own.  The session
\* store refuses every write here (setItem throws), so it stays empty.
StartChoices == {"2026-11-05T10:00", "2026-11-05T12:30"}
EndChoices ==
    {"", "2026-11-05T10:00", "2026-11-05T11:15", "2026-11-05T12:30",
     "2026-11-06T10:00", "garbage"}
DateInputs == {[Filled EXCEPT !.startDate = a, !.endDate = b] :
                  a \in StartChoices, b \in EndChoices}
IsoChoices == {r.iso : r \in DateTable} \cup {"", "garbage"}
DepartChoices == {"2026-11-05T07:00:00.000Z", "2026-11-05T09:30:00.000Z", "", "garbage"}
DatedRecords ==
    {[departDateTime |-> a, arriveDateTime |-> b, undefinedKeys |-> {}] :
        a \in DepartChoices, b \in IsoChoices}
    \cup {[departDateTime |-> "2026-11-05T07:00:00.000Z",
           arriveDateTime |-> b, duration |-> <<"5 hours">>,
           undefinedKeys |-> {}] : b \in {"", "2026-11-05T09:30:00.000Z"}}
NextDates ==
    \/ \E v \in DateInputs : UserEdits(v)
    \/ SubmitForm(1, FALSE)
    \/ \E data \in DatedRecords : ApiInit("#ticketContainer", data)
SpecDates == Init /\ [][NextDates]_vars

\* Two containers: direct init calls into either, between submissions.
ContainerSelectors == {"#ticketContainer", "#otherContainer"}
ContainerData ==
    {Null, [bookingId |-> <<"HT-X">>, undefinedKeys |-> {}],
     [bookingId |-> <<"HT-Y">>, qrPayload |-> <<"verify:HT-Y">>, undefinedKeys |-> {}]}
NextContainers ==
    \/ UserEdits(Filled)
    \/ SubmitForm(1, TRUE)
    \/ ResetClick
    \/ \E sel \in ContainerSelectors, data \in ContainerData : ApiInit(sel, data)
SpecContainers == Init /\ [][NextContainers]_vars

\* Download names: records whose booking id is missing, empty, blank or
\* holds whitespace runs, rendered by direct init calls between submissions.
NamedRecords ==
    {Null,
     [bookingId |-> <<>>, undefinedKeys |-> {}],
     [bookingId |-> <<" ">>, undefinedKeys |-> {}],
     [bookingId |-> <<"H", "T", " ", "\t", "1", " ", "2">>, undefinedKeys |-> {}]}
NextNames ==
    \/ UserEdits(Filled)
    \/ SubmitForm(1, TRUE)
    \/ \E data \in NamedRecords : ApiInit("#ticketContainer", data)
    \/ DownloadPNG
    \/ DownloadPDF
    \/ \E i \in 1..MaxPending, ok \in BOOLEAN : ExportSettles(i, ok)
SpecNames == Init /\ [][NextNames]_vars

\* The resolver on its own: getPrice reads nothing but the values of the
\* two selects, which are drawn here from the rate table's names, the empty
\* value, names the table does not have and names every object inherits.
ResolverCategories == {"Bus", "Flight", "Train", "", "Boat", "constructor"}
ResolverClasses ==
    {"Regular", "Premium", "Economy", "Business", "First Class", "", "Deluxe",
     "toString"}
InitResolver ==
    /\ transport \in ResolverCategories
    /\ travelClass \in ResolverClasses
    /\ text = EmptyText
    /\ providerOpts = ProvidersOf(transport)
    /\ classOpts = ClassesOf(transport)
    /\ provider = FirstOption(providerOpts)
    /\ priceDisplay = <<"KES 0">>
    /\ container = NoElement
    /\ currentData = Null
    /\ qrInstance = Null
    /\ ticketHtml = EmptyHtml
    /\ otherHtml = EmptyHtml
    /\ wired = FALSE
    /\ store = <<>>
    /\ now = 0
    /\ libs \in LibConfigs
    /\ pending = <<>>
    /\ toast = NoToast
    /\ out = OutNone
    /\ SiteInit(AllElements)
NextResolver == GetPriceCall
SpecResolver == InitResolver /\ [][NextResolver]_vars

(***************************************************************************)
(* Helpers of the properties.                                              *)
(***************************************************************************)
DigitValue(c) == CHOOSE d \in 0..9 : DigitChar(d) = c

\* the number a currency text shows: the sign dropped, the digits read
\* through the grouping commas
RECURSIVE ReadDigits(_, _)
ReadDigits(s, acc) ==
    IF s = <<>> THEN acc
    ELSE IF Head(s) = "," THEN ReadDigits(Tail(s), acc)
    ELSE ReadDigits(Tail(s), 10 * acc + DigitValue(Head(s)))
AmountShown(t) == ReadDigits(SubSeq(t, Len(CurrencySign) + 1, Len(t)), 0)

\* t is x rounded to the nearest integer, halves up, for x = 5 % of price
IsFivePercentRounded(t, price) ==
    /\ 100 * t <= 5 * price + 50
    /\ 100 * t > 5 * price - 50

\* every booking record a submission has created and the page still holds
RecordsHeld ==
    (IF currentData # Null /\ Has(currentData, "price") THEN {currentData} ELSE {})
        \cup {store[k] : k \in DOMAIN store}

AllWhitespace(s) == \A i \in 1..Len(s) : IsWhitespace(s[i])

\* a required field is empty or holds only whitespace
RequiredBlank(f) ==
    \/ AllWhitespace(f.passengerName)
    \/ AllWhitespace(f.phone)
    \/ AllWhitespace(f.email)
    \/ f.startDate \in {"", " "}

Submitted == out.op = "submit" /\ out.said # <<>>
ExportOps == {"downloadPNG", "downloadPDF", "printTicket", "copyBookingId"}
ErrorToasts == {<<"No booking ID">>, <<"Copy failed">>}

(***************************************************************************)
(* C1: in every booking record a submission creates, taxes is 5 % of the   *)
(* price rounded to the nearest integer and total is price + taxes, and    *)
(* the total the rendered ticket shows is the formatting of that total.    *)
(***************************************************************************)
C1_TaxesAndTotal ==
    /\ \A r \in RecordsHeld :
          /\ IsFivePercentRounded(r.taxes, r.price)
          /\ r.total = r.price + r.taxes
    /\ (Submitted /\ ticketHtml # EmptyHtml) =>
          /\ AmountShown(ticketHtml.total) = currentData.total
          /\ IsFivePercentRounded(AmountShown(ticketHtml.total) - currentData.price,
                                  currentData.price)

C1_Witness ==
    /\ Submitted
    /\ currentData.price = 70000
    /\ currentData.taxes = 3500
    /\ ticketHtml.total = <<"Ksh", " ", "7", "3", ",", "5", "0", "0">>
    /\ \E k \in DOMAIN store : store[k].price = 0 /\ store[k].total = 0

C3_EarlyExportSignalsError ==
    (out.op \in ExportOps /\ out.early /\ libs.jspdf) =>
        /\ out.fault = ""
        /\ out.alert # "" \/ out.said \in ErrorToasts

(***************************************************************************)
(* C4: with window.jspdf absent, downloadPDF reports an error and returns  *)
(* normally.                                                               *)
(***************************************************************************)
C4_MissingJspdfReported ==
    (out.op = "downloadPDF" /\ ~libs.jspdf) => (out.fault = "" /\ out.alert # "")

(***************************************************************************)
(* C5: an init call whose container cannot be found leaves the container   *)
(* reference, the current record, the QR instance and the rendered ticket  *)
(* as they were.                                                           *)
(***************************************************************************)
C5_FailedInitAllOrNothing ==
    [][(out'.op = "init" /\ out'.fault # "") =>
          UNCHANGED <<container, currentData, qrInstance, ticketHtml>>]_vars

(***************************************************************************)
(* C6: a failure while rasterizing to image or document is caught and      *)
(* reported by an alert, the export does not reject, and the current       *)
(* record and the rendered ticket are unchanged.                           *)
(***************************************************************************)
C6_RasterFailureRecoverable ==
    [][(out'.op \in {"downloadPNG", "downloadPDF"}
            /\ ~(out'.op = "downloadPDF" /\ PdfGuardThrows)) =>
          /\ out'.fault = ""
          /\ out'.file = <<>> =>
                out'.alert = (IF out'.op = "downloadPNG" THEN "PNG generation failed."
                              ELSE "PDF generation failed.")
          /\ UNCHANGED <<rendererVars, ticketHtml>>]_vars

\* a PNG download that succeeds when invoked again right after a failed one
C6_Witness ==
    /\ out.op = "downloadPNG"
    /\ out.prev = "failed"
    /\ out.file # <<>>
    /\ out.alert = ""

(***************************************************************************)
(* C7: the booking id of a successful submission differs from the id of    *)
(* every earlier submission of the session (whose records the session      *)
(* store keeps).                                                           *)
(***************************************************************************)
C7_BookingIdsUnique ==
    [][(out'.op = "submit" /\ out'.said # <<>>) =>
          StoreKey(currentData'.bookingId) \notin DOMAIN store]_vars

(***************************************************************************)
(* C8: the current record changes only in a successful render or           *)
(* submission, and after a successful submission it is exactly the record  *)
(* built from the form, with no field of the previous record.              *)
(***************************************************************************)
C8_RecordReplacedWholesale ==
    [][/\ currentData' # currentData =>
             (out'.op \in {"submit", "init"} /\ out'.fault = "" /\ out'.alert = "")
       /\ (out'.op = "submit" /\ out'.said # <<>>) =>
             /\ DOMAIN currentData' = DOMAIN BuiltRecord(now')
             /\ \A k \in DOMAIN currentData' : currentData'[k] = BuiltRecord(now')[k]]_vars

\* a second submission has superseded the record of the first
C8_Witness ==
    /\ Submitted
    /\ ClockReads(now) = 2
    /\ currentData.bookingId = BookingId(now)
    /\ Cardinality(DOMAIN store) = 2

(***************************************************************************)
(* C9: whenever the ticket preview is empty there is no current record.    *)
(***************************************************************************)
C9_NoRecordWithoutRendering == ticketHtml = EmptyHtml => currentData = Null

(***************************************************************************)
(* C10: an export or copy invocation, and its resumption, leave the        *)
(* current record, the container reference and the rendered ticket         *)
(* unchanged; the name of a PNG download is determined by the current      *)
(* record, so two downloads of an unchanged ticket carry the same name.    *)
(***************************************************************************)
ExportObserved == out'.op \in ExportOps \/ Len(pending') # Len(pending)

PngNameOfCurrent ==
    <<"HarmonyTravels_Ticket_">>
        \o (IF CurrentId = <<>> THEN <<"ticket">> ELSE CurrentId) \o <<".", "png">>

C10_ExportsPreserveTicket ==
    /\ [][ExportObserved => UNCHANGED <<rendererVars, ticketHtml>>]_vars
    /\ []((out.op = "downloadPNG" /\ out.file # <<>>) => out.file = PngNameOfCurrent)

\* a second PNG download invoked right after a first, both of one booking
C10_Witness ==
    /\ out.op = "downloadPNG"
    /\ out.prev = "done"
    /\ out.file = <<"HarmonyTravels_Ticket_">> \o BookingId(1) \o <<".", "png">>

(***************************************************************************)
(* C11: feedback to the user never comes through a blocking dialog, the    *)
(* popup-blocked case of printTicket excepted.                             *)
(***************************************************************************)
C11_NoBlockingDialog == out.alert # "" => out.alert = "Popup blocked"

(***************************************************************************)
(* C12: getPrice returns the rate-table price of the class under the       *)
(* category, and 0 when the category or the class is empty or is not in    *)
(* the rate table; it never throws.                                        *)
(***************************************************************************)
RatePrice(t, cls) ==
    IF /\ t \in {"Bus", "Flight", "Train"}
       /\ \E i \in 1..Len(PRICE_MATRIX[t].classes) : PRICE_MATRIX[t].classes[i].name = cls
    THEN LET i == CHOOSE j \in 1..Len(PRICE_MATRIX[t].classes) :
                      PRICE_MATRIX[t].classes[j].name = cls
         IN PRICE_MATRIX[t].classes[i].price
    ELSE 0

C12_ResolverContractOwnNames ==
    (out.op = "getPrice" /\ transport \notin Inherited /\ travelClass \notin Inherited) =>
        /\ out.fault = ""
        /\ out.resolved = RatePrice(transport, travelClass)

(***************************************************************************)
(* C13: the provider and class choices are exactly those the rate table    *)
(* configures for the selected category, the resolved price is that of the *)
(* selected class, and a category the table does not have gives no         *)
(* choices and price 0; a submission records the resolved price.           *)
(***************************************************************************)
RateCategories == {"Bus", "Flight", "Train"}

C13_ChoicesFollowCategory ==
    /\ IF transport \in RateCategories
       THEN /\ providerOpts = PRICE_MATRIX[transport].providers
            /\ Len(classOpts) = Len(PRICE_MATRIX[transport].classes)
            /\ \A i \in 1..Len(classOpts) :
                  classOpts[i] = PRICE_MATRIX[transport].classes[i].name
            /\ provider \in Range(providerOpts)
            /\ travelClass \in Range(classOpts)
            /\ getPrice(transport, travelClass) = RatePrice(transport, travelClass)
            /\ getPrice(transport, travelClass) > 0
       ELSE /\ providerOpts = <<>>
            /\ classOpts = <<>>
            /\ provider = ""
            /\ travelClass = ""
            /\ getPrice(transport, travelClass) = 0
    /\ Submitted => currentData.price = RatePrice(transport, travelClass)

\* Train / First Class selected and booked after a booking made with no
\* category selected
C13_Witness ==
    /\ Submitted
    /\ transport = "Train"
    /\ travelClass = "First Class"
    /\ classOpts = <<"Economy", "Business", "First Class">>
    /\ currentData.price = 3500
    /\ \E k \in DOMAIN store : store[k].transportType = "" /\ store[k].price = 0

(***************************************************************************)
(* C14: a valid submission with Bus / Premium creates a record with price  *)
(* 2500, taxes 125 and total 2625 and the ticket shows the KES formatting  *)
(* of 2625; with Flight / First Class the record has price 70000, taxes    *)
(* 3500 and total 73500.                                                   *)
(***************************************************************************)
C14_Scenarios ==
    /\ (Submitted /\ transport = "Bus" /\ travelClass = "Premium") =>
          /\ currentData.price = 2500
          /\ currentData.taxes = 125
          /\ currentData.total = 2625
          /\ ticketHtml.total = <<"Ksh", " ", "2", ",", "6", "2", "5">>
    /\ (Submitted /\ transport = "Flight" /\ travelClass = "First Class") =>
          /\ currentData.price = 70000
          /\ currentData.taxes = 3500
          /\ currentData.total = 73500

C14_Witness ==
    /\ Submitted
    /\ currentData.transportType = "Bus"
    /\ currentData.classOrSeat = "Premium"
    /\ currentData.total = 2625
    /\ ticketHtml.price = <<"Ksh", " ", "2", ",", "5", "0", "0">>
    /\ \E k \in DOMAIN store :
          /\ store[k].transportType = "Flight"
          /\ store[k].classOrSeat = "First Class"
          /\ store[k].total = 73500

(***************************************************************************)
(* C15: a valid submission without an arrive date creates a record with an *)
(* empty arrive timestamp, and the ticket shows 'TBA' as Arrive and 'TBA'  *)
(* as Duration; neither cell of a rendered ticket is ever blank.           *)
(***************************************************************************)
C15_NoArriveShowsTBA ==
    /\ (Submitted /\ text.endDate = "") =>
          /\ currentData.arriveDateTime = ""
          /\ ticketHtml.arrive = "TBA"
          /\ ticketHtml.duration = <<"TBA">>
    /\ ticketHtml # EmptyHtml =>
          /\ ticketHtml.arrive # ""
          /\ ticketHtml.duration # <<>>

C15_Witness ==
    /\ Submitted
    /\ text.endDate = ""
    /\ ticketHtml.depart = "Thu, Nov 5, 12:30 PM"
    /\ ticketHtml.arrive = "TBA"
    /\ ticketHtml.duration = <<"TBA">>

(***************************************************************************)
(* C16: on a ticket whose record brings no duration of its own, when       *)
(* depart and arrive are both known and arrive is later the duration cell  *)
(* reads 'Hh Mm' with H*60+M the difference in whole minutes (the nearest  *)
(* minute) and 0 <= M < 60; when that difference is zero or negative or a  *)
(* timestamp is missing or unparsable the cell reads 'TBA'.                *)
(***************************************************************************)
\* the position of the "h" of 'Hh Mm'
HourMark(d) == CHOOSE i \in 1..Len(d) : d[i] = "h"
WellFormedDuration(d) ==
    /\ Len(d) >= 5
    /\ \E i \in 2..Len(d) : d[i] = "h"
    /\ LET i == HourMark(d)
       IN /\ i + 2 < Len(d)
          /\ d[i + 1] = " "
          /\ d[Len(d)] = "m"
          /\ \A j \in (1..(i - 1)) \cup ((i + 2)..(Len(d) - 1)) :
                \E n \in 0..9 : DigitChar(n) = d[j]
HoursShown(d) == ReadDigits(SubSeq(d, 1, HourMark(d) - 1), 0)
MinutesShown(d) == ReadDigits(SubSeq(d, HourMark(d) + 2, Len(d) - 1), 0)

\* the second of a timestamp of the table, by its ISO form
KnownIso(iso) == \E r \in DateTable : r.iso = iso
SecondOfIso(iso) == (CHOOSE r \in DateTable : r.iso = iso).second

\* m is the number of minutes nearest to secs seconds, halves up
IsNearestMinute(m, secs) == 60 * m - secs <= 30 /\ secs - 60 * m < 30

RenderedWithoutOwnDuration ==
    /\ ticketHtml # EmptyHtml
    /\ ~("duration" \in DOMAIN currentData /\ currentData.duration # <<>>)

RenderJustDone == out.op \in {"init", "submit"} /\ out.fault = "" /\ out.alert = ""

C17_OneCodeInRenderedContainer ==
    RenderJustDone =>
        LET mine == IF container = "ticketContainer" THEN ticketHtml ELSE otherHtml
            theirs == IF container = "ticketContainer" THEN otherHtml ELSE ticketHtml
        IN /\ mine.qr = QrPayloadOf(currentData)
           /\ theirs = EmptyHtml \/ theirs.qr = <<>>

(***************************************************************************)
(* C18: after a successful submission the session store holds, under       *)
(* booking_<bookingId>, a value that deserializes to a record identical to *)
(* the one built and rendered: the same keys with the same values.         *)
(***************************************************************************)
\* JSON.parse: a stored value is held as the keys and values its text has
JsonParse(v) == v

\* the own keys of an object, those holding undefined included
OwnKeys(r) == (DOMAIN r \ {"undefinedKeys"}) \cup r.undefinedKeys

SameRecord(a, b) ==
    /\ OwnKeys(a) = OwnKeys(b)
    /\ a.undefinedKeys = b.undefinedKeys
    /\ \A k \in DOMAIN a \ {"undefinedKeys"} : a[k] = b[k]

C18_SessionRoundTrip ==
    Submitted =>
        /\ StoreKey(currentData.bookingId) \in DOMAIN store
        /\ SameRecord(JsonParse(store[StoreKey(currentData.bookingId)]), currentData)

\* the same for the keys that hold a value
C18_DefinedFieldsRoundTrip ==
    Submitted =>
        /\ StoreKey(currentData.bookingId) \in DOMAIN store
        /\ LET back == JsonParse(store[StoreKey(currentData.bookingId)])
           IN /\ DOMAIN back = DOMAIN currentData
              /\ \A k \in DOMAIN back \ {"undefinedKeys"} : back[k] = currentData[k]

(***************************************************************************)
(* C19: an entry of the session store is never overwritten or removed, and *)
(* the store changes only in a successful submission, which adds the       *)
(* serialization of its record under booking_<bookingId>.                  *)
(***************************************************************************)
C19_StoreKeepsEveryBooking ==
    [][/\ \A k \in DOMAIN store : k \in DOMAIN store' /\ store'[k] = store[k]
       /\ store' # store =>
             /\ out'.op = "submit"
             /\ out'.said # <<>>
             /\ StoreKey(currentData'.bookingId) \in DOMAIN store'
             /\ store'[StoreKey(currentData'.bookingId)] = Serialize(currentData')]_vars

\* the store changes only in a successful submission, which writes the
\* serialization of its record under its key
C19_StoreWrittenBySubmissionOnly ==
    [][store' # store =>
          /\ out'.op = "submit"
          /\ out'.said # <<>>
          /\ store'[StoreKey(currentData'.bookingId)] = Serialize(currentData')
          /\ \A k \in DOMAIN store :
                k # StoreKey(currentData'.bookingId) =>
                    (k \in DOMAIN store' /\ store'[k] = store[k])]_vars

(***************************************************************************)
(* C20: a PNG download is named HarmonyTravels_Ticket_<id>.png and a PDF   *)
(* download HarmonyTravels_Ticket_<id>.pdf, <id> being the current         *)
(* record's booking id with every whitespace run replaced by one           *)
(* underscore, or 'ticket' when the record has no booking id.              *)
(***************************************************************************)
\* every whitespace run of s as one underscore: a whitespace character
\* gives "_" when it opens a run and nothing otherwise
RunsAsUnderscores(s) ==
    LET marks == [i \in 1..Len(s) |->
                    IF ~IsWhitespace(s[i]) THEN s[i]
                    ELSE IF i > 1 /\ IsWhitespace(s[i - 1]) THEN "" ELSE "_"]
        Kept(c) == c # ""
    IN SelectSeq(marks, Kept)

ExpectedStem ==
    IF CurrentId = <<>> THEN <<"ticket">> ELSE RunsAsUnderscores(CurrentId)

C20_DownloadNames ==
    /\ (out.op = "downloadPNG" /\ out.file # <<>>) =>
          out.file = <<"HarmonyTravels_Ticket_">> \o ExpectedStem \o <<".", "png">>
    /\ (out.op = "downloadPDF" /\ out.file # <<>>) =>
          out.file = <<"HarmonyTravels_Ticket_">> \o ExpectedStem \o <<".", "pdf">>

\* a PDF download of a ticket whose id has two whitespace runs
C20_Witness ==
    /\ out.op = "downloadPDF"
    /\ CurrentId = <<"H", "T", " ", "\t", "1", " ", "2">>
    /\ out.file = <<"HarmonyTravels_Ticket_", "H", "T", "_", "1", "_", "2", ".", "pdf">>

(***************************************************************************)
(* Placement of the captured image on the PDF page.                        *)
(***************************************************************************)
\* Placement: submissions and PDF exports whose capture gives canvases
\* wider, taller, smaller and larger than the page, and of its proportions.
CanvasSizes ==
    {[width |-> 1, height |-> 1], [width |-> 3, height |-> 7],
     [width |-> 200, height |-> 100], [width |-> 100, height |-> 200],
     [width |-> 297, height |-> 210], [width |-> 594, height |-> 420],
     [width |-> 1600, height |-> 900], [width |-> 900, height |-> 1600],
     [width |-> 1600, height |-> 1], [width |-> 1, height |-> 1600]}
NextPlacement ==
    \/ UserEdits(Filled)
    \/ SubmitForm(1, TRUE)
    \/ ApiInit("#ticketContainer", Null)
    \/ DownloadPDF
    \/ DownloadPNG
    \/ \E i \in 1..MaxPending, ok \in BOOLEAN, img \in CanvasSizes :
          ExportSettlesSized(i, ok, img)
SpecPlacement == Init /\ [][NextPlacement]_vars

PlacedNow == out.placed # <<>>
ThePlaced == out.placed[1]
Positive(a) == a.n > 0 /\ a.d > 0
NonNegative(a) == a.n >= 0 /\ a.d > 0

\* C21: whatever the canvas, the image put on the PDF page keeps the
\* canvas's aspect ratio (w * imgHeight = h * imgWidth), lies within the
\* page (0 < w <= pageWidth, 0 < h <= pageHeight) and is centred
\* (x = (pageWidth - w) / 2 >= 0, y = (pageHeight - h) / 2 >= 0).
C21_PlacementFitsCentred ==
    PlacedNow =>
        LET p == ThePlaced IN
        /\ p.w.n * p.img.height * p.h.d = p.h.n * p.img.width * p.w.d
        /\ Positive(p.w) /\ FracLeq(p.w, Frac(PageWidth, 1))
        /\ Positive(p.h) /\ FracLeq(p.h, Frac(PageHeight, 1))
        /\ FracEq(p.x, HalfRest(PageWidth, p.w)) /\ NonNegative(p.x)
        /\ FracEq(p.y, HalfRest(PageHeight, p.h)) /\ NonNegative(p.y)

\* a PDF was saved whose canvas was, for its width, taller than the page:
\* the image was fitted to the page's height
C21_Witness ==
    /\ out.op = "downloadPDF" /\ out.file # <<>> /\ PlacedNow
    /\ ThePlaced.img = [width |-> 900, height |-> 1600]
    /\ FracEq(ThePlaced.h, Frac(PageHeight, 1))
    /\ FracLess(ThePlaced.w, Frac(PageWidth, 1))

SmallerThanPage(img) == img.width <= PageWidth /\ img.height <= PageHeight

\* C22: the image put on the PDF page is never enlarged: its placed width
\* and height are no larger than the canvas's own, and a canvas smaller
\* than the page in both dimensions is placed at its own size.
C22_NeverUpscaled ==
    PlacedNow =>
        LET p == ThePlaced IN
        /\ FracLeq(p.w, Frac(p.img.width, 1))
        /\ FracLeq(p.h, Frac(p.img.height, 1))
        /\ SmallerThanPage(p.img) =>
              /\ FracEq(p.w, Frac(p.img.width, 1))
              /\ FracEq(p.h, Frac(p.img.height, 1))

\* what does hold: a canvas at least as large as the page in both
\* dimensions is never placed larger than it is
C22_LargeCanvasNotEnlarged ==
    PlacedNow =>
        LET p == ThePlaced IN
        (p.img.width >= PageWidth /\ p.img.height >= PageHeight) =>
            /\ FracLeq(p.w, Frac(p.img.width, 1))
            /\ FracLeq(p.h, Frac(p.img.height, 1))

(***************************************************************************)
(* Printing.                                                               *)
(***************************************************************************)
\* Printing: submissions, resets and direct init calls into either
\* container or none, with printTicket between them.  The session store
\* refuses every write.
PrintSelectors == {"#ticketContainer", "#otherContainer", "#missing"}
PrintData == {Null, [bookingId |-> <<"HT-X">>, undefinedKeys |-> {}]}
NextPrint ==
    \/ UserEdits(Filled)
    \/ SubmitForm(1, FALSE)
    \/ ResetClick
    \/ \E sel \in PrintSelectors, data \in PrintData : ApiInit(sel, data)
    \/ \E ok \in BOOLEAN : PrintTicket(ok)
SpecPrint == Init /\ [][NextPrint]_vars

PrintJustRan == out.op = "printTicket"
\* the renderer holds a container and a ticket is rendered in it
ContainerShowsTicket ==
    \/ container = "ticketContainer" /\ ticketHtml # EmptyHtml
    \/ container = "otherContainer" /\ otherHtml # EmptyHtml
PrintedInView ==
    /\ out.printed = "popup" /\ out.alert = "" /\ out.fault = ""
    /\ container = "ticketContainer" => out.view = <<ticketHtml>>
    /\ container = "otherContainer" => out.view = <<otherHtml>>
BlockageTold ==
    /\ out.alert = "Popup blocked" /\ out.printed = "" /\ out.view = <<>>
    /\ out.fault = ""

C23_ViewOfSecondContainer ==
    /\ PrintJustRan /\ out.printed = "popup"
    /\ container = "otherContainer"
    /\ out.view = <<otherHtml>> /\ otherHtml # EmptyHtml /\ otherHtml # ticketHtml

CopyNotices == {<<"Booking ID copied">>, <<"No booking ID">>, <<"Copy failed">>}
\* the booking id of the current record, <<>> when there is no record or
\* the record has no id or an empty one
IdOfRecord ==
    IF currentData = Null THEN <<>>
    ELSE IF ~Has(currentData, "bookingId") THEN <<>>
    ELSE currentData.bookingId
CopyInFlight(i) == i \in 1..Len(pending) /\ pending[i].kind = "copy"
\* a handler run that ends a copyBookingId call
CopyEnds == out'.op = "copyBookingId" /\ ~TimerStep

\* C24: copyBookingId never fails silently and never rejects.  It ends with
\* exactly one of three notices: 'No booking ID', at once and with nothing
\* written to the clipboard, exactly when there is no current record or no
\* id; 'Booking ID copied' when the write of the id read at the call is
\* granted, and then the clipboard holds exactly that id; 'Copy failed'
\* when the write is denied.
C24_CopyNeverSilent ==
    /\ [][CopyEnds =>
            /\ out'.fault = "" /\ out'.alert = ""
            /\ out'.said \in CopyNotices
            /\ pending' = pending <=> out'.said = <<"No booking ID">>
            /\ pending' = pending => IdOfRecord = <<>> /\ out'.clip = <<>>
            /\ out'.said = <<"Booking ID copied">> =>
                  /\ out'.clip # <<>>
                  /\ \E i \in 1..Len(pending) :
                        /\ CopyInFlight(i)
                        /\ pending[i].id = out'.clip
                        /\ pending' = RemoveAt(pending, i)
            /\ out'.said = <<"Copy failed">> => out'.clip = <<>>]_vars
    /\ [][(Len(pending') > Len(pending) /\ pending'[Len(pending')].kind = "copy") =>
            /\ IdOfRecord # <<>>
            /\ pending'[Len(pending')].id = IdOfRecord]_vars
    /\ [][(IdOfRecord = <<>> /\ CopyEnds /\ pending' = pending) =>
            out'.said = <<"No booking ID">>]_vars

\* the clipboard refused the id of a submitted booking and the user was told
C24_Witness ==
    /\ out.op = "copyBookingId"
    /\ out.said = <<"Copy failed">>
    /\ out.clip = <<>>
    /\ IdOfRecord # <<>>
    /\ wired

\* the other two outcomes of a copy
C24_ReachCopied ==
    out.op = "copyBookingId" /\ out.said = <<"Booking ID copied">> /\ out.clip = IdOfRecord
C24_ReachNoId ==
    out.op = "copyBookingId" /\ out.said = <<"No booking ID">> /\ currentData # Null

(***************************************************************************)
(* The amounts of the rendered ticket.                                     *)
(***************************************************************************)
\* Amounts: direct init calls with records whose price, taxes and total are
\* each a number, NaN, or missing, between submissions.
Keep(r, keys) == [k \in keys |-> r[k]]
AmountKeys == SUBSET {"price", "taxes", "total"}
AmountValues ==
    {[price |-> p, taxes |-> t, total |-> s, undefinedKeys |-> {}] :
        p \in {NaN, 0, 1500}, t \in {NaN, 75}, s \in {NaN, 1575, 70000}}
AmountRecords == {Keep(r, ks \cup {"undefinedKeys"}) : r \in AmountValues, ks \in AmountKeys}
NextAmounts ==
    \/ UserEdits(Filled)
    \/ SubmitForm(1, FALSE)
    \/ \E data \in AmountRecords : ApiInit("#ticketContainer", data)
SpecAmounts == Init /\ [][NextAmounts]_vars

NotAvailable == <<"KES N/A">>
\* the cell an amount that is a number is to show
CurrencyShown(n) == <<"Ksh", " ">> \o GroupDigits(n)
AmountCellOk(cell, d, k) ==
    IF NumOf(d, k) = NaN THEN cell = NotAvailable ELSE cell = CurrencyShown(d[k])
TicketShown == ticketHtml # EmptyHtml /\ currentData # Null

\* C25: rendering never throws on a missing or not-a-number amount, and
\* each of the price, taxes and total cells shows 'KES N/A' when its value
\* is missing or not a number and the value as KES currency without
\* fractional digits otherwise.
C25_AmountsOrNotAvailable ==
    /\ out.op \in {"init", "submit"} => out.fault = ""
    /\ TicketShown =>
          /\ AmountCellOk(ticketHtml.price, currentData, "price")
          /\ AmountCellOk(ticketHtml.taxes, currentData, "taxes")
          /\ AmountCellOk(ticketHtml.total, currentData, "total")

\* what does hold: nothing throws, the price cell follows the rule, a total
\* that is present follows it, and numbers are shown as currency
C25_PriceCellAndPresentTotals ==
    /\ out.op \in {"init", "submit"} => out.fault = ""
    /\ TicketShown =>
          /\ AmountCellOk(ticketHtml.price, currentData, "price")
          /\ Has(currentData, "total") =>
                AmountCellOk(ticketHtml.total, currentData, "total")
          /\ NumOf(currentData, "taxes") # NaN =>
                ticketHtml.taxes = CurrencyShown(currentData.taxes)
          /\ NumOf(currentData, "taxes") = NaN => ticketHtml.taxes = CurrencyShown(0)

(***************************************************************************)
(* The payload of the scannable code.                                      *)
(***************************************************************************)
\* Payloads: submissions, some with colliding ids, and direct init calls
\* with records that have an id and no payload, no id, or a payload of
\* their own.
PayloadRecords ==
    {Null,
     [bookingId |-> <<"HT-X">>, undefinedKeys |-> {}],
     [bookingId |-> <<"HT-Y">>, undefinedKeys |-> {}],
     [bookingId |-> <<"HT-Y">>, qrPayload |-> <<>>, undefinedKeys |-> {}],
     [bookingId |-> <<"HT-Z">>, qrPayload |-> <<"verify:", "HT-Z">>, undefinedKeys |-> {}]}
NextPayload ==
    \/ UserEdits(Filled)
    \/ \E d \in Elapsed : SubmitForm(d, TRUE)
    \/ \E data \in PayloadRecords : ApiInit("#ticketContainer", data)
SpecPayload == Init /\ [][NextPayload]_vars

VerifyPrefix == <<"https://harmonytravels.example/verify/">>
\* the text the code on show encodes
Encoded == ticketHtml.qr
CodeShown == libs.qrcode /\ RenderJustDone /\ ticketHtml # EmptyHtml
OwnPayload(d) == Has(d, "qrPayload") /\ d.qrPayload # <<>>

\* C26: the payload of the code is a function of the booking id from which
\* the id can be read back: a booking's payload is the verify address
\* followed by its id, so bookings with one id have one payload and
\* bookings with different ids have different payloads; a record that
\* brings a payload of its own is encoded with it; and a record with an id
\* and no payload is encoded as 'Booking:' followed by its id.
C26_PayloadEmbedsId ==
    /\ \A r \in RecordsHeld : r.qrPayload = VerifyPrefix \o r.bookingId
    /\ \A r1, r2 \in RecordsHeld :
          (r1.bookingId = r2.bookingId) <=> (r1.qrPayload = r2.qrPayload)
    /\ CodeShown =>
          /\ OwnPayload(currentData) => Encoded = currentData.qrPayload
          /\ (~OwnPayload(currentData) /\ IdOfRecord # <<>>) =>
                /\ Encoded = <<"Booking:">> \o IdOfRecord
                /\ Tail(Encoded) = IdOfRecord
          /\ out.op = "submit" =>
                /\ Encoded = VerifyPrefix \o currentData.bookingId
                /\ Tail(Encoded) = currentData.bookingId

\* a record with an id and no payload of its own was rendered after two
\* bookings with different ids
C26_Witness ==
    /\ CodeShown /\ out.op = "init"
    /\ ~OwnPayload(currentData)
    /\ Encoded = <<"Booking:", "HT-Y">>
    /\ Cardinality(RecordsHeld) = 2

(***************************************************************************)
(* Exports in flight while bookings are submitted.                         *)
(***************************************************************************)
DownloadDone == out'.op \in {"downloadPNG", "downloadPDF"} /\ out'.file # <<>>
Extension(op) == IF op = "downloadPNG" THEN "png" ELSE "pdf"
\* the name a download of the ticket with booking id `id` is to carry
NameFor(id, op) ==
    <<"HarmonyTravels_Ticket_">>
        \o (IF id = <<>> THEN <<"ticket">> ELSE ReplaceWhitespaceRuns(id))
        \o <<".", Extension(op)>>

\* C27: whatever is submitted while a capture is suspended, the downloaded
\* PNG or PDF is named after the booking whose ticket was on show when the
\* export was invoked.
C27_NameOfCapturedTicket ==
    [][DownloadDone =>
          \E i \in 1..Len(pending) :
              /\ pending' = RemoveAt(pending, i)
              /\ out'.file = NameFor(pending[i].shown, out'.op)]_vars

\* what does hold: the download is named after the record that is current
\* when the capture settles
C27_NameOfRecordAtSettle ==
    [][DownloadDone => out'.file = NameFor(CurrentId, out'.op)]_vars

(***************************************************************************)
(* The price display.                                                      *)
(***************************************************************************)
\* C28: after any sequence of transport and class changes, estimate clicks
\* and submissions, the price display shows the formatted price the
\* resolver returns for the current selections ('KES 0' for a price of 0),
\* also after a switch to a category the rate table does not have.
C28_DisplayFollowsResolver ==
    priceDisplay = PriceText(getPrice(transport, travelClass))

\* what does hold: the display follows the resolver while the selected
\* category is one of the rate table
C28_DisplayFollowsKnownCategory ==
    OptionsKnown(transport) => priceDisplay = PriceText(getPrice(transport, travelClass))

(***************************************************************************)
(* The toast and its timers.                                               *)
(***************************************************************************)
\* Toasts: submissions, direct init calls with no record and copies of the
\* booking id, with time passing and the timers firing between them.  The notices of the downloads go through
\* the same showToast as those of the copy.  The session store refuses
\* every write.
NextToast ==
    \/ UserEdits(Filled)
    \/ SubmitForm(1, FALSE)
    \/ ApiInit("#ticketContainer", Null)
    \/ CopyBookingId
    \/ \E i \in 1..MaxPending, ok \in BOOLEAN : ExportSettles(i, ok)
    \/ TimePasses
    \/ ToastTimerFires
    \/ SubmitTimerFires
\* the page with every third-party global loaded
InitToast == Init /\ libs = [html2canvas |-> TRUE, jspdf |-> TRUE, qrcode |-> TRUE]
SpecToast == InitToast /\ [][NextToast]_vars
\* time passes and a timer whose time has run out fires
SpecToastLive ==
    SpecToast /\ WF_vars(TimePasses) /\ WF_vars(ToastTimerFires)
        /\ WF_vars(SubmitTimerFires)

\* C29: a toast stays on show for the whole duration it was shown with
\* (1600 ms by showToast, 1800 ms by the submit handler): it is hidden only
\* when that duration has run out, unless a newer message has replaced it,
\* whose own duration then counts.
C29_ToastStaysItsDuration ==
    [][(toast.show /\ ~toast'.show) => toast.left = 0]_vars

\* what does hold: a toast is hidden by nothing but a timer that has run
\* its full time, and never stays longer than the longest duration
C29_HiddenByTimersOnly ==
    /\ [][(toast.show /\ ~toast'.show) =>
             \E i \in 1..Len(TimersOf(toast)) : TimersOf(toast)[i] = 0]_vars
    /\ [](toast.show => TimersOf(toast) # <<>>)

\* from some point on no handler runs: only time passes and timers fire
HandlersRest == <>[][TimerStep]_vars

\* C30: every toast is dismissed by itself: once no further handler runs,
\* the toast loses its 'show' class and stays without it.
C30_ToastAutoDismissed == HandlersRest => <>[](~toast.show)

\* the notice of a finished copy has been on show and is gone again, with
\* no timer left
C30_Witness ==
    /\ out.op = "copyBookingId" /\ out.said = <<"Booking ID copied">>
    /\ ~toast.show
    /\ TimersOf(toast) = <<>>

(***************************************************************************)
(* The site script: the pages explored.  A page has all the elements the   *)
(* script looks up, or lacks the header, the map frame or the newsletter   *)
(* modal.                                                                  *)
(*   SpecHeader   scrolling, animation frames, the auto-hide timer, loads  *)
(*   SpecNews     scrolling with a session storage that takes or refuses   *)
(*                the write, closing the newsletter modal, loads           *)
(*   SpecModals   opening and closing every modal, the Escape key          *)
(***************************************************************************)
InitSite ==
    /\ TicketInit
    /\ libs = [html2canvas |-> TRUE, jspdf |-> TRUE, qrcode |-> TRUE]
    /\ \E d \in SiteConfigs : SiteInit(d)

NextHeader ==
    \/ \E y \in Positions : ScrollTo(y, TRUE)
    \/ FrameRuns
    \/ SiteTimePasses
    \/ HideTimerFires
    \/ \E restore \in BOOLEAN : Reload(restore)

SpecHeader == InitSite /\ [][NextHeader]_vars

NextNews ==
    \/ \E y \in Positions, ok \in BOOLEAN : ScrollTo(y, ok)
    \/ NewsletterCloseClick
    \/ ModalSubscribe
    \/ EscapeKey
    \/ \E restore \in BOOLEAN : Reload(restore)

SpecNews == InitSite /\ [][NextNews]_vars

NextModals ==
    \/ \E url \in MapUrls : MapToggleClick(url)
    \/ MapCloseClick
    \/ \E url \in MapUrls : FooterMapClick(url)
    \/ FooterMapCloseClick
    \/ \E key \in MoreKeys : MoreClick(key)
    \/ \E i \in 1..MaxMore : MoreCloseClick(i)
    \/ \E y \in {0, 300} : ScrollTo(y, TRUE)
    \/ NewsletterCloseClick
    \/ ModalSubscribe
    \/ EscapeKey
    \/ Reload(FALSE)

SpecModals == InitSite /\ [][NextModals]_vars

(***************************************************************************)
(* C31: whenever the latest scroll movement was upward and no animation    *)
(* frame is awaited, the header is pinned, its top is '0' and no auto-hide *)
(* timer is pending.                                                       *)
(***************************************************************************)
C31_PinnedAfterUpwardScroll ==
    (dom.header /\ seen.lastMove = "up" /\ frames = <<>>) =>
        (header.pinned /\ header.top = "0" /\ hideTimer = <<>>)

\* what the code does keep: a frame whose captured position lies above
\* lastScrollY pins the header, shows it and clears the timer
C31_FrameOfUpwardPositionPins ==
    [][(FrameRuns /\ dom.header /\ Head(frames) < lastScrollY) =>
          (header'.pinned /\ header'.top = "0" /\ hideTimer' = <<>>)]_vars

(***************************************************************************)
(* C32: the header is hidden (top '-84px') only on a page that the user    *)
(* has scrolled down.                                                      *)
(***************************************************************************)
C32_HiddenOnlyAfterDownwardScroll == header.top = "-84px" => seen.everDown

\* what the code does keep: the header goes into hiding only when the
\* auto-hide timer has run its HideMs, and every upward frame clears it
C32_HiddenByExpiredTimerOnly ==
    [][(header'.top = "-84px" /\ header.top # "-84px") => hideTimer = <<0>>]_vars

(***************************************************************************)
(* C33: in one session the newsletter modal goes from hidden to shown at   *)
(* most once.                                                              *)
(***************************************************************************)
C33_NewsletterOncePerSession == seen.opens <= 1

NewsletterOpening == newsletterModal = "true" /\ newsletterModal' = "false"

\* what the code does keep: the modal opens only in a scroll event whose
\* viewport bottom (scrollY + innerHeight) is past half the page height,
\* and never while the session storage holds ht_news_shown
C33_OpensPastHalfWithoutEntry ==
    [][NewsletterOpening =>
          /\ 2 * (pageY' + InnerHeight) > ScrollHeight
          /\ pageY' # pageY
          /\ sessionNews # "1"]_vars

(***************************************************************************)
(* C34: after an Escape key press the main map modal, the footer map       *)
(* modal, the newsletter modal and every 'Learn more' modal are hidden     *)
(* (aria-hidden 'true'), and the frame of a map modal that was open is     *)
(* empty.                                                                  *)
(***************************************************************************)
AllModalsClosed ==
    /\ mapModal = "true"
    /\ footerMapModal = "true"
    /\ newsletterModal = "true"
    /\ \A i \in 1..Len(moreModals) : moreModals[i].ariaHidden = "true"

C34_EscapeClosesEveryModal ==
    [][EscapeKey =>
          /\ AllModalsClosed'
          /\ mapModal = "false" => mapFrame' = <<>>
          /\ footerMapModal = "false" => footerMapFrame' = <<>>]_vars

\* an Escape press has found all four kinds of modal open and closed them
C34_Witness ==
    /\ seen.esc = {"map", "footer", "newsletter", "more"}
    /\ AllModalsClosed
    /\ mapFrame = <<>>
    /\ footerMapFrame = <<>>
    /\ Len(moreModals) = MaxMore


====
